---------------------------- MODULE Spec2Model ----------------------------
(***************************************************************************)
(* A model of the batch-write harnesses of the DynamoDB load scripts:      *)
(*                                                                         *)
(*   map-insertmany.py   MapDynamoDBManager.batch_write_with_retry and     *)
(*                       parallel_insert_large_dataset (producer thread,   *)
(*                       bounded queue, consumer threads, monitor loop)    *)
(*   ddb-map-insert.py   MapBulkLoader.batch_write_with_retries and        *)
(*                       insert_bulk_data (ThreadPoolExecutor.map)         *)
(*                                                                         *)
(* The store (boto3 batch_write_item) is the environment: every call ends  *)
(* in one of the outcomes the client library can produce, chosen           *)
(* nondeterministically.  A list of write requests is modelled as the set  *)
(* of its requests (the scripts never put the same request twice in one    *)
(* list, and no decision of the code depends on the order).               *)
(***************************************************************************)
EXTENDS Integers, Sequences, FiniteSets, TLC

(***************************************************************************)
(* Bounds of the model.                                                    *)
(***************************************************************************)
\* largest batch handed to a retry function called on its own
RetryBatchMax == 3
\* largest max_retries argument tried for batch_write_with_retry
MaxRetriesIn == 8
\* largest total_items of a run of parallel_insert_large_dataset
MaxTotal == 2
\* largest count of a run of insert_bulk_data
MaxCount == 3
\* largest start_idx of a call of generate_batch_data on its own
MaxGenStart == 3
\* the clock (ms) when the first call of generate_batch_data may be made, and
\* the number of milliseconds that may pass during the observation
ClockStart == 100000
MaxTicks == 3
\* ddb-map-query.py: most records of the queried block, the number of element
\* ids and the largest version
MaxRecords == 4
MaxEle == 2
MaxVersion == 3
\* delete_all_items.py: longest confirmation typed and most items of the table
MaxInputLen == 3
MaxItems == 2
\* map-query-ele-ver.py: most items of the queried tile, the largest tsver
\* and the largest Limit of the optimized queries
MaxTileRecords == 4
MaxTsver == 3
MaxLimit == 2
\* ddb-bench-batchget.py, ddb-bench-query.py: most keys scanned, the largest
\* batch_size, and most queries begun before the stop event
MaxKeys == 3
MaxBenchBatch == 2
MaxBenchCalls == 2
\* query_benchmark.py: most items in the file, and most calls begun before
\* the end time
MaxFileItems == 3
MaxQbCalls == 3
\* largest batch_size of a whole run
MaxBatchSize == 2
\* largest max_workers of a whole run
MaxWorkers == 2

(***************************************************************************)
(* Constants of the programs.                                              *)
(***************************************************************************)
\* map-insertmany.py: def batch_write_with_retry(self, items, max_retries=5)
DefaultMaxRetries == 5
\* map-insertmany.py: backoff_time = 50
InitialBackoff == 50
\* map-insertmany.py: min(backoff_time * 2, 1000)
UnprocessedCap == 1000
\* map-insertmany.py: min(backoff_time * 2, 2000)
ThrottleCap == 2000
\* map-insertmany.py: queue.Queue(maxsize=max_workers * 2)
QueueFactor == 2
\* ddb-map-insert.py: max_retries = 5
MapMaxRetries == 5
\* ddb-map-insert.py: wait_time = (2 ** retry_count) * 100
BaseWait == 100

\* map-insertmany.py: branches = [f"branch{i}" for i in range(10)]
NumBranches == 10
\* map-insertmany.py: tiles = [f"t{str(i).zfill(5)}" for i in range(1000)]
NumTiles == 1000
TileWidth == 5
\* map-insertmany.py: tile_idx = (i // 10) % len(tiles)
TileStride == 10
\* map-insertmany.py: element_type_idx = (i // 100) % len(element_types)
TypeStride == 100
\* map-insertmany.py: element_id = str(i % 1000000).zfill(7)
ElementIdModulus == 1000000
ElementIdWidth == 7
\* map-insertmany.py: element_value = f"value_{i % 10000000}"
ValueModulus == 10000000
\* map-insertmany.py: str(current_time - (i % 86400000))
MsPerDay == 86400000

Workers == 1..MaxWorkers
Tasks == 1..MaxCount

Min(a, b) == IF a <= b THEN a ELSE b

RECURSIVE Pow2(_)
Pow2(n) == IF n = 0 THEN 1 ELSE 2 * Pow2(n - 1)

\* the sentinel None of the batch queue, and "no batch" of a worker
NoneItem == [idx |-> -1, size |-> 0]

\* the input offsets of the batch (batch, idx, size) of batch_producer
Records(item) == item.idx .. (item.idx + item.size - 1)

VARIABLES
    script,             \* which entry point runs
    tracing,            \* whether the per-call observations below are kept
    \* ---- map-insertmany.py: parallel_insert_large_dataset
    total_items, batch_size, max_workers, max_retries,
    start_idx,          \* from the progress file, or 0
    resumed_from,       \* last_index in the file when the run began, -1: no file
    progress_file,      \* last_index in the file; -1: the file does not exist
    items_inserted, last_items_inserted,
    stats_lock,         \* 0: free, w: held by consumer w, -1: held by the monitor
    done_event,
    batch_queue,        \* sequence of items, NoneItem is the sentinel
    prod_pc, prod_idx,
    produced,           \* the batches put on the queue so far, in order
    main_pc, items_since_last, interrupted,
    w_pc, w_item, request_items, retries, backoff_time, success, w_loaded,
    \* ---- ddb-map-insert.py: insert_bulk_data
    count,              \* number of items to insert
    batches,            \* batch number -> the items of the batch
    t_pc, items_batch, retry_count, t_result,
    bulk_pc, success_count, failure_count, bulk_return,
    \* ---- observations of one call of a retry function (kept when tracing)
    accepted,           \* records the store has reported processed
    calls,              \* number of external calls made
    sent,               \* the requests of the latest call
    reported,           \* the unprocessed requests of the latest response
    got_response,       \* whether a call has returned a response
    first_ok,           \* index of the first fully accepted call, 0: none
    saw_error,          \* whether a call raised a client error
    slept, prev_slept,  \* the latest sleep and the one before (ms), 0: none
    slept_path,         \* the path of the latest sleep
    calls_at_error,     \* calls made when the first non-throttling error came
    \* ---- observations of a whole run of map-insertmany.py
    dequeued, counted_ok, warned, consumer_errors, submitted, returned_true,
    exhausted,
    stored              \* the input offsets the store has reported processed

retryIn == <<script, tracing, max_retries>>
manyIn == <<total_items, batch_size, max_workers, start_idx, resumed_from>>
shared == <<items_inserted, stats_lock>>
monitor == <<main_pc, items_since_last, last_items_inserted, progress_file,
             interrupted, done_event>>
prod == <<prod_pc, prod_idx, produced>>
wk == <<w_pc, w_item, request_items, retries, backoff_time, success, w_loaded>>
obs == <<accepted, calls, sent, reported, got_response, first_ok, saw_error,
         slept, prev_slept, slept_path, calls_at_error>>
runobs == <<dequeued, counted_ok, warned, consumer_errors, returned_true,
            exhausted>>

task == <<t_pc, items_batch, retry_count, t_result>>
bulk == <<count, batches, bulk_pc, success_count, failure_count, bulk_return>>

manyVars == <<manyIn, shared, monitor, prod, batch_queue, wk, runobs>>
bulkVars == <<task, bulk>>

\* the variables of the loaders (map-insertmany.py, ddb-map-insert.py)
loaderVars == <<retryIn, manyVars, bulkVars, obs, submitted, stored>>

VARIABLES
    \* ---- map-insertmany.py: two calls of generate_batch_data
    g_pc,
    g_start_idx, g_batch_size,      \* the arguments of both calls
    clock,                          \* int(time.time() * 1000)
    first_batch, second_batch,      \* what the calls returned
    \* ---- ddb-map-query.py: query_max_versions_by_block
    q_pc,
    max_version_threshold,
    version_is_str,     \* whether the store returns the version as a str
    stream,             \* the records of the block the key condition selects,
                        \* in the order of the index read backwards
    rest,               \* the records of stream no page has returned yet
    response_items,     \* response['Items']
    response_has_key,   \* 'LastEvaluatedKey' in response
    q_pos,              \* position of the for loop in response_items
    seen_elements, result_items, items_processed, should_break,
    below_seen,         \* a record below the threshold has been encountered
    page_requests,      \* number of table.query calls made
    \* ---- delete_all_items.py: main and delete_all_items
    d_pc,
    confirmation,       \* what the user typed, a sequence of characters
    table,              \* the keys of the items in the table
    table_before,       \* the table when the script started
    unscanned,          \* the items no scan page has returned yet
    d_items,            \* items: the items the scan pages returned
    d_pos,              \* position of the for loop in d_items
    deleted_count,
    scan_calls, delete_calls

genVars == <<g_pc, g_start_idx, g_batch_size, clock, first_batch, second_batch>>
queryVars == <<q_pc, max_version_threshold, version_is_str, stream, rest,
               response_items, response_has_key, q_pos, seen_elements,
               result_items, items_processed, should_break, below_seen,
               page_requests>>
deleteVars == <<d_pc, confirmation, table, table_before, unscanned, d_items, d_pos,
                deleted_count, scan_calls, delete_calls>>

VARIABLES
    \* ---- map-query-ele-ver.py: get_latest_element_versions, then
    \* ---- get_latest_element_versions_optimized on the same table
    v_pc,
    gsi,                \* the items of the tile in tile-tsver-index, read
                        \* backwards (descending tsver)
    max_tsver,
    v_batch_size,       \* batch_size, the Limit of the optimized queries
    v_rest,             \* the selected items no page has returned yet
    results,            \* results of get_latest_element_versions
    plain_result,       \* final_results of get_latest_element_versions
    latest_versions,    \* latest_versions of the optimized function
    optimized_result,   \* final_results of the optimized function
    total_items_processed,
    v_pages,            \* number of table.query calls of each function
    \* ---- ddb-bench-batchget.py and ddb-bench-query.py
    b_pc,               \* the main thread
    num_threads,
    bench_batch_size,   \* batch_size of query_batch
    stop_event,         \* stop_event / stop_flag
    oneid_queue,        \* ddb-bench-batchget.py: the queue of scanned keys
    oneids,             \* ddb-bench-query.py: the list of scanned keys
    bw_pc,              \* the workers
    batch,              \* batch of query_batch; the key of query_table
    b_ok,               \* whether the worker's call returned
    b_found,            \* number of items in the worker's response
    lock,               \* 0 when free, else the worker that holds it
    b_loaded,           \* the counters as read by the worker under the lock
    total_queries, total_retrieved, total_errors,
    b_calls,            \* number of calls started
    calls_after_stop,   \* per worker, the calls started after the stop event
    k_dequeued, k_requested, k_outcome, k_counted,  \* per key: times taken
                        \* from the queue, times sent in a call, what the
                        \* call did, times added to a counter
    \* ---- query_benchmark.py
    qb_pc,              \* the main thread
    qb_items,           \* items, as loaded from the file
    qb_num_threads,
    qb_batch_size,      \* batch_size of query_batch
    item_chunks,        \* what split_items returned
    time_up,            \* time.time() >= end_time
    work_queue,         \* the chunks submitted and not yet taken by a thread
    qt_pc, qt_chunk,    \* the pool's threads and the chunk each works on
    start_index,
    thread_local_stats, \* thread_local.stats of each pool thread
    printed,            \* the three totals printed
    qb_calls,           \* number of calls started
    served,             \* per chunk, the calls made for it
    ok_keys, ok_items, err_keys     \* keys requested in successful calls,
                        \* items they returned, keys in failed calls

verVars == <<v_pc, gsi, max_tsver, v_batch_size, v_rest, results, plain_result,
             latest_versions, optimized_result, total_items_processed, v_pages>>
benchIn == <<num_threads, bench_batch_size, oneids>>
benchMain == <<b_pc, stop_event>>
counters == <<total_queries, total_retrieved, total_errors>>
benchObs == <<b_calls, calls_after_stop, k_dequeued, k_requested, k_outcome,
             k_counted>>
benchVars == <<benchIn, benchMain, oneid_queue, bw_pc, batch, b_ok, b_found, lock,
              b_loaded, counters, benchObs>>
qbIn == <<qb_items, qb_num_threads, qb_batch_size>>
qbObs == <<qb_calls, served, ok_keys, ok_items, err_keys>>
qbVars == <<qbIn, qb_pc, item_chunks, time_up, work_queue, qt_pc, qt_chunk,
           start_index, thread_local_stats, printed, qbObs>>

\* the variables of the read benchmarks and of map-query-ele-ver.py
readers == <<verVars, benchVars, qbVars>>

\* the variables of the other scripts
elsewhere == <<genVars, queryVars, deleteVars, readers>>

vars == <<loaderVars, elsewhere>>

(***************************************************************************)
(* map-insertmany.py: batch_write_with_retry, run by worker w.             *)
(* w_pc[w] = "write": inside the while loop, about to test its condition.  *)
(* w_pc[w] = "count": the function has returned success[w].                *)
(* w_pc[w] = "raised": an exception has left the function.                 *)
(***************************************************************************)

\* lines 119-126: request_items = {table: items}; retries = 0; backoff_time = 50
EnterRetry(w, item) ==
    /\ w_item' = [w_item EXCEPT ![w] = item]
    /\ request_items' = [request_items EXCEPT ![w] = Records(item)]
    /\ retries' = [retries EXCEPT ![w] = 0]
    /\ backoff_time' = [backoff_time EXCEPT ![w] = InitialBackoff]

\* line 128: while retries < max_retries
RetryGuard_OffByOne(w) == retries[w] <= max_retries
RetryGuard(w) == retries[w] < max_retries

\* line 133: if not unprocessed or not unprocessed.get(self.table_name)
IsComplete_Singleton(U) == Cardinality(U) <= 1
IsComplete(U) == U = {}

\* line 137: request_items = unprocessed
NextRequest(w, U) == U

\* lines 140, 150: if retries < max_retries: time.sleep(...), retries already
\* incremented
SleepsAfter(w) == retries[w] + 1 < max_retries

\* lines 142, 152: backoff_time = min(backoff_time * 2, cap)
NextBackoff(w, cap) == Min(backoff_time[w] * 2, cap)

\* the observations of one external call by p with the requests req and the
\* outcome `path`; U: the unprocessed requests of the response, when there is
\* one; ms: the sleep that follows the call, 0 when none does
Observe(p, req, path, U, ms) ==
    IF tracing
    THEN /\ calls' = [calls EXCEPT ![p] = @ + 1]
         /\ sent' = [sent EXCEPT ![p] = req]
         /\ accepted' = [accepted EXCEPT ![p] =
                IF path = "response" THEN @ \cup (req \ U) ELSE @]
         /\ reported' = [reported EXCEPT ![p] =
                IF path = "response" THEN U ELSE @]
         /\ got_response' = [got_response EXCEPT ![p] = @ \/ path = "response"]
         /\ first_ok' = [first_ok EXCEPT ![p] =
                IF path = "response" /\ U = {} /\ @ = 0 THEN calls[p] + 1 ELSE @]
         /\ saw_error' = [saw_error EXCEPT ![p] = @ \/ path # "response"]
         /\ calls_at_error' = [calls_at_error EXCEPT ![p] =
                IF path = "error" /\ @ = 0 THEN calls[p] + 1 ELSE @]
         /\ slept' = [slept EXCEPT ![p] = IF ms > 0 THEN ms ELSE @]
         /\ prev_slept' = [prev_slept EXCEPT ![p] = IF ms > 0 THEN slept[p] ELSE @]
         /\ slept_path' = [slept_path EXCEPT ![p] = IF ms > 0 THEN path ELSE @]
    ELSE UNCHANGED obs

\* the sleep after a call of worker w: backoff_time ms, or none
SleepMs(w) == IF SleepsAfter(w) THEN backoff_time[w] ELSE 0

\* lines 134, 157, 160, 163: the function is left and its locals are gone
LeaveRetry(w) ==
    /\ request_items' = [request_items EXCEPT ![w] = {}]
    /\ retries' = [retries EXCEPT ![w] = 0]
    /\ backoff_time' = [backoff_time EXCEPT ![w] = InitialBackoff]

\* what a run records when batch_write_with_retry returns ok for the batch
\* of worker w
ObserveReturn(w, ok) ==
    /\ returned_true' = IF ok THEN returned_true + w_item[w].size ELSE returned_true
    /\ exhausted' = IF ok THEN exhausted ELSE exhausted \cup {w_item[w].idx}

\* what a step of batch_write_with_retry leaves alone
RetryFrame ==
    UNCHANGED <<retryIn, elsewhere, manyIn, shared, monitor, prod, batch_queue, bulkVars,
                w_item, w_loaded, dequeued, counted_ok, warned, consumer_errors>>

\* lines 130-142: the call returns a response whose UnprocessedItems are U
CallResponds(w) ==
    /\ w_pc[w] = "write"
    /\ RetryGuard(w)
    /\ \E U \in SUBSET request_items[w] :
         IF IsComplete(U)
         THEN /\ success' = [success EXCEPT ![w] = TRUE]
              /\ w_pc' = [w_pc EXCEPT ![w] = "count"]
              /\ Observe(w, request_items[w], "response", U, 0)
              /\ ObserveReturn(w, TRUE)
              /\ LeaveRetry(w)
              /\ stored' = stored \cup request_items[w]
         ELSE /\ request_items' = [request_items EXCEPT ![w] = NextRequest(w, U)]
              /\ retries' = [retries EXCEPT ![w] = @ + 1]
              /\ backoff_time' = [backoff_time EXCEPT ![w] =
                     IF SleepsAfter(w) THEN NextBackoff(w, UnprocessedCap) ELSE @]
              /\ Observe(w, request_items[w], "response", U, SleepMs(w))
              /\ stored' = stored \cup (request_items[w] \ U)
              /\ UNCHANGED <<success, w_pc, returned_true, exhausted>>
    /\ submitted' = submitted \cup {w_item[w].idx}
    /\ RetryFrame

\* lines 144-152: ClientError, ProvisionedThroughputExceededException
CallThrottled(w) ==
    /\ w_pc[w] = "write"
    /\ RetryGuard(w)
    /\ retries' = [retries EXCEPT ![w] = @ + 1]
    /\ backoff_time' = [backoff_time EXCEPT ![w] =
           IF SleepsAfter(w) THEN NextBackoff(w, ThrottleCap) ELSE @]
    /\ Observe(w, request_items[w], "throttle", {}, SleepMs(w))
    /\ submitted' = submitted \cup {w_item[w].idx}
    /\ UNCHANGED <<w_pc, request_items, success, returned_true, exhausted,
                   stored>>
    /\ RetryFrame

\* lines 153-158: any other ClientError: logged, counted as a retry, and
\* retried after a sleep unless the budget is used up
CallError(w) ==
    /\ w_pc[w] = "write"
    /\ RetryGuard(w)
    /\ IF retries[w] + 1 >= max_retries
       THEN /\ success' = [success EXCEPT ![w] = FALSE]
            /\ w_pc' = [w_pc EXCEPT ![w] = "count"]
            /\ ObserveReturn(w, FALSE)
            /\ LeaveRetry(w)
       ELSE /\ retries' = [retries EXCEPT ![w] = @ + 1]
            /\ UNCHANGED <<success, w_pc, returned_true, exhausted,
                           request_items, backoff_time>>
    /\ Observe(w, request_items[w], "error", {}, SleepMs(w))
    /\ submitted' = submitted \cup {w_item[w].idx}
    /\ UNCHANGED stored
    /\ RetryFrame

\* lines 129-163: an exception that is no ClientError is caught by no except
\* clause of the function: the finally block returns the client and the
\* exception leaves the function
CallRaises(w) ==
    /\ w_pc[w] = "write"
    /\ RetryGuard(w)
    /\ w_pc' = [w_pc EXCEPT ![w] = "raised"]
    /\ Observe(w, request_items[w], "raise", {}, 0)
    /\ submitted' = submitted \cup {w_item[w].idx}
    /\ LeaveRetry(w)
    /\ UNCHANGED <<success, returned_true, exhausted, stored>>
    /\ RetryFrame

\* line 160: the loop ends with retries >= max_retries: return False
ReturnFalse(w) ==
    /\ w_pc[w] = "write"
    /\ ~RetryGuard(w)
    /\ success' = [success EXCEPT ![w] = FALSE]
    /\ w_pc' = [w_pc EXCEPT ![w] = "count"]
    /\ ObserveReturn(w, FALSE)
    /\ LeaveRetry(w)
    /\ UNCHANGED <<obs, submitted, stored>>
    /\ RetryFrame

(***************************************************************************)
(* ddb-map-insert.py: the items and their conversion to and from the       *)
(* store's attribute format.  A Python value is a record with its type t   *)
(* and its str s, int n or float n.f; an attribute value of the store is   *)
(* {'S': s} or {'N': n} with n a string, modelled as its characters.  A    *)
(* float is a decimal number of a few digits, 0 or from 0.0001 up: n is    *)
(* its integer part and f the digits of its fraction, without the zeros at *)
(* the end, <<>> for a whole number (512.07 is n = 512, f = <<"0", "7">>). *)
(***************************************************************************)
PyStr(x) == [t |-> "str", s |-> x, n |-> 0, f |-> <<>>]
PyInt(x) == [t |-> "int", s |-> "", n |-> x, f |-> <<>>]
PyFloat(x, y) == [t |-> "float", s |-> "", n |-> x, f |-> y]

AttrS(x) == [T |-> "S", S |-> x, N |-> <<>>]
AttrN(x) == [T |-> "N", S |-> "", N |-> x]

DigitChars == <<"0", "1", "2", "3", "4", "5", "6", "7", "8", "9">>
IsDigit(c) == \E d \in 1..10 : DigitChars[d] = c
DigitOf(c) == (CHOOSE d \in 1..10 : DigitChars[d] = c) - 1

\* str(n) of an int n >= 0
RECURSIVE DecStr(_)
DecStr(n) ==
    IF n < 10 THEN <<DigitChars[n + 1]>>
    ELSE DecStr(n \div 10) \o <<DigitChars[(n % 10) + 1]>>

\* str(x) of a float x = n.f: the shortest repr, which always holds a point
\* and at least one digit after it
FloatStr(n, f) == DecStr(n) \o <<".">> \o (IF f = <<>> THEN <<"0">> ELSE f)

\* int(s) of a string of digits
RECURSIVE ParseDigits(_)
ParseDigits(cs) ==
    IF cs = <<>> THEN 0
    ELSE 10 * ParseDigits(SubSeq(cs, 1, Len(cs) - 1)) + DigitOf(cs[Len(cs)])

\* int(s) raises ValueError unless s is a string of digits
IntParses(cs) == cs # <<>> /\ \A i \in 1..Len(cs) : IsDigit(cs[i])

PointAt(cs) == CHOOSE i \in 1..Len(cs) : cs[i] = "."

\* float(s): the zeros at the end of the fraction do not change the value
RECURSIVE StripZeros(_)
StripZeros(cs) ==
    IF cs # <<>> /\ cs[Len(cs)] = "0" THEN StripZeros(SubSeq(cs, 1, Len(cs) - 1))
    ELSE cs

\* lines 102-113: _convert_to_dynamodb_format, one value
ToAttr(v) ==
    CASE v.t = "str" -> AttrS(v.s)
      [] v.t = "int" -> AttrN(DecStr(v.n))
      [] v.t = "float" -> AttrN(FloatStr(v.n, v.f))

\* lines 115-129: _convert_from_dynamodb_format, one value
FromAttr_Truncating(a) ==
    IF a.T = "S" THEN PyStr(a.S)
    ELSE IF IntParses(a.N) THEN PyInt(ParseDigits(a.N))
    ELSE PyInt(ParseDigits(SubSeq(a.N, 1, PointAt(a.N) - 1)))
FromAttr(a) ==
    IF a.T = "S" THEN PyStr(a.S)
    ELSE IF IntParses(a.N) THEN PyInt(ParseDigits(a.N))
    ELSE PyFloat(ParseDigits(SubSeq(a.N, 1, PointAt(a.N) - 1)),
                 StripZeros(SubSeq(a.N, PointAt(a.N) + 1, Len(a.N))))

ToItem(item) == [k \in DOMAIN item |-> ToAttr(item[k])]
FromItem(ditem) == [k \in DOMAIN ditem |-> FromAttr(ditem[k])]

\* lines 68-71: the PutRequests of items_batch
ToRequest(items) == {ToItem(it) : it \in items}
\* lines 81-82: items_batch = the unprocessed PutRequests converted back
FromRequest(reqs) == {FromItem(r) : r \in reqs}

blocks == <<"downtown_block_1", "downtown_block_2", "residential_zone_a",
            "industrial_area_b", "commercial_district_c", "suburban_area_d",
            "historic_district_e", "waterfront_zone_f", "university_campus_g",
            "park_area_h">>
versions == <<"1.0", "1.1", "1.5", "2.0", "2.1", "3.0">>
statuses == <<"active", "inactive", "under_construction", "maintenance",
              "planned">>

\* line 49: random.randint(0, 10000)
MaxBack == 10000

\* lines 36, 42, 43, 46, 49: what one call draws: hex is uuid.uuid4().hex[:8],
\* version and status are the two random.choice, attitude is
\* round(random.uniform(0, 1000), 2), now is int(time.time() * 1000) on a
\* clock that starts near ClockStart, back is the randint.  Draws are the
\* draws the model tries.
Draws ==
    {[hex |-> "5291fdbc", version |-> "1.1", status |-> "planned",
      attitude |-> PyFloat(847, <<"4", "3">>), now |-> ClockStart + MaxBack,
      back |-> 6293],
     [hex |-> "fa76ecd8", version |-> "1.5", status |-> "active",
      attitude |-> PyFloat(512, <<"0", "7">>), now |-> ClockStart + MaxBack + 1,
      back |-> MaxBack],
     [hex |-> "5291fdbc", version |-> "3.0", status |-> "active",
      attitude |-> PyFloat(120, <<>>), now |-> ClockStart + MaxBack,
      back |-> 0]}

\* lines 21-58: generate_random_map_element(index), with draw what the call
\* draws at random and reads from the clock
generate_random_map_element(index, draw) ==
    [ele |-> PyStr("element_" \o ToString(index) \o "_" \o draw.hex),
     timestamp |-> PyInt(draw.now - draw.back),
     block |-> PyStr(blocks[(index % Len(blocks)) + 1]),
     version |-> PyStr(draw.version),
     status |-> PyStr(draw.status),
     attitude |-> draw.attitude]

\* line 147: all_items = [generate_random_map_element(i) for i in range(n)],
\* one draw per call
AllItems(n) ==
    {[i \in 0..(n - 1) |-> generate_random_map_element(i, d[i])] :
        d \in [0..(n - 1) -> Draws]}

(***************************************************************************)
(* ddb-map-insert.py: batch_write_with_retries, run for batch number b.    *)
(* t_pc[b] = "run": inside the while loop; "done": returned t_result[b].   *)
(***************************************************************************)

\* line 65: while retry_count < max_retries
RetriesGuard(b) == retry_count[b] < MapMaxRetries

\* lines 85, 92: wait_time = (2 ** retry_count) * 100
WaitTime(b) == Pow2(retry_count[b]) * BaseWait

\* line 77: if not unprocessed: return True
MapIsComplete(U) == U = {}

\* lines 78, 97, 100: the function is left and its locals are gone
LeaveRetries(b) ==
    /\ items_batch' = [items_batch EXCEPT ![b] = {}]
    /\ retry_count' = [retry_count EXCEPT ![b] = 0]

\* what a step of batch_write_with_retries leaves alone
RetriesFrame == UNCHANGED <<retryIn, elsewhere, manyVars, bulk>>

\* an external call has been made for batch number b
Submit(b) ==
    /\ submitted' = submitted \cup {b}
    /\ UNCHANGED stored

\* lines 66-87: the call returns a response whose UnprocessedItems are U
RetriesResponds(b) ==
    /\ t_pc[b] = "run"
    /\ RetriesGuard(b)
    /\ \E U \in SUBSET ToRequest(items_batch[b]) :
         IF MapIsComplete(U)
         THEN /\ t_result' = [t_result EXCEPT ![b] = TRUE]
              /\ t_pc' = [t_pc EXCEPT ![b] = "done"]
              /\ Observe(b, ToRequest(items_batch[b]), "response", U, 0)
              /\ LeaveRetries(b)
         ELSE /\ items_batch' = [items_batch EXCEPT ![b] = FromRequest(U)]
              /\ retry_count' = [retry_count EXCEPT ![b] = @ + 1]
              /\ Observe(b, ToRequest(items_batch[b]), "response", U, WaitTime(b))
              /\ UNCHANGED <<t_result, t_pc>>
    /\ Submit(b)
    /\ RetriesFrame

\* lines 89-94: ClientError, ProvisionedThroughputExceededException
RetriesThrottled(b) ==
    /\ t_pc[b] = "run"
    /\ RetriesGuard(b)
    /\ retry_count' = [retry_count EXCEPT ![b] = @ + 1]
    /\ Observe(b, ToRequest(items_batch[b]), "throttle", {}, WaitTime(b))
    /\ UNCHANGED <<t_pc, items_batch, t_result>>
    /\ Submit(b)
    /\ RetriesFrame

\* lines 95-97: any other ClientError: return False
RetriesError(b) ==
    /\ t_pc[b] = "run"
    /\ RetriesGuard(b)
    /\ t_result' = [t_result EXCEPT ![b] = FALSE]
    /\ t_pc' = [t_pc EXCEPT ![b] = "done"]
    /\ Observe(b, ToRequest(items_batch[b]), "error", {}, 0)
    /\ LeaveRetries(b)
    /\ Submit(b)
    /\ RetriesFrame

\* lines 99-100: the loop ends with retry_count >= max_retries: return False
RetriesExhausted(b) ==
    /\ t_pc[b] = "run"
    /\ ~RetriesGuard(b)
    /\ t_result' = [t_result EXCEPT ![b] = FALSE]
    /\ t_pc' = [t_pc EXCEPT ![b] = "done"]
    /\ LeaveRetries(b)
    /\ UNCHANGED <<obs, submitted, stored>>
    /\ RetriesFrame

(***************************************************************************)
(* The state before any thread runs.                                       *)
(***************************************************************************)
InitWorkers ==
    /\ w_pc = [w \in Workers |-> "idle"]
    /\ w_item = [w \in Workers |-> NoneItem]
    /\ request_items = [w \in Workers |-> {}]
    /\ retries = [w \in Workers |-> 0]
    /\ backoff_time = [w \in Workers |-> InitialBackoff]
    /\ success = [w \in Workers |-> FALSE]
    /\ w_loaded = [w \in Workers |-> 0]

InitObs ==
    /\ accepted = [w \in Workers |-> {}]
    /\ calls = [w \in Workers |-> 0]
    /\ sent = [w \in Workers |-> {}]
    /\ reported = [w \in Workers |-> {}]
    /\ got_response = [w \in Workers |-> FALSE]
    /\ first_ok = [w \in Workers |-> 0]
    /\ saw_error = [w \in Workers |-> FALSE]
    /\ slept = [w \in Workers |-> 0]
    /\ prev_slept = [w \in Workers |-> 0]
    /\ slept_path = [w \in Workers |-> "none"]
    /\ calls_at_error = [w \in Workers |-> 0]

InitRunObs ==
    /\ submitted = {}
    /\ stored = {}
    /\ dequeued = [i \in 0..(MaxTotal - 1) |-> 0]
    /\ counted_ok = [i \in 0..(MaxTotal - 1) |-> 0]
    /\ warned = [i \in 0..(MaxTotal - 1) |-> 0]
    /\ consumer_errors = 0
    /\ returned_true = 0
    /\ exhausted = {}

InitTasks ==
    /\ t_pc = [b \in Tasks |-> "none"]
    /\ items_batch = [b \in Tasks |-> {}]
    /\ retry_count = [b \in Tasks |-> 0]
    /\ t_result = [b \in Tasks |-> FALSE]

InitBulkIdle ==
    /\ count = 0
    /\ batches = [b \in Tasks |-> {}]
    /\ bulk_pc = "idle"
    /\ success_count = 0 /\ failure_count = 0
    /\ bulk_return = <<0, 0>>

InitManyIdle ==
    /\ total_items = 0 /\ batch_size = 1 /\ max_workers = 1 /\ start_idx = 0
    /\ progress_file = -1 /\ resumed_from = -1 /\ produced = <<>>
    /\ items_inserted = 0 /\ last_items_inserted = 0 /\ stats_lock = 0
    /\ done_event = FALSE /\ batch_queue = <<>>
    /\ prod_pc = "idle" /\ prod_idx = 0
    /\ main_pc = "idle" /\ items_since_last = 0
    /\ interrupted = FALSE

\* no call of generate_batch_data is observed
InitGenIdle ==
    /\ g_pc = "idle" /\ g_start_idx = 0 /\ g_batch_size = 0 /\ clock = 0
    /\ first_batch = <<>> /\ second_batch = <<>>

\* ddb-map-query.py does not run
InitQueryIdle ==
    /\ q_pc = "idle" /\ max_version_threshold = 0 /\ version_is_str = FALSE
    /\ stream = <<>> /\ rest = <<>>
    /\ response_items = <<>> /\ response_has_key = FALSE /\ q_pos = 0
    /\ seen_elements = {} /\ result_items = <<>> /\ items_processed = 0
    /\ should_break = FALSE /\ below_seen = FALSE /\ page_requests = 0

\* delete_all_items.py does not run
InitDeleteIdle ==
    /\ d_pc = "idle" /\ confirmation = <<>>
    /\ table = {} /\ table_before = {} /\ unscanned = {}
    /\ d_items = <<>> /\ d_pos = 0 /\ deleted_count = 0
    /\ scan_calls = 0 /\ delete_calls = 0

\* map-query-ele-ver.py does not run
InitVerIdle ==
    /\ v_pc = "idle" /\ gsi = <<>> /\ max_tsver = 0 /\ v_batch_size = 1
    /\ v_rest = <<>> /\ results = <<>> /\ plain_result = <<>>
    /\ latest_versions = <<>> /\ optimized_result = <<>>
    /\ total_items_processed = 0 /\ v_pages = <<0, 0>>

\* the per-key and per-chunk counts while no key and no chunk exists
NoCounts == [k \in {} |-> 0]

\* ddb-bench-batchget.py and ddb-bench-query.py do not run
InitBenchIdle ==
    /\ b_pc = "idle" /\ num_threads = 1 /\ bench_batch_size = 1
    /\ stop_event = FALSE /\ oneid_queue = <<>> /\ oneids = {}
    /\ bw_pc = [w \in Workers |-> "idle"]
    /\ batch = [w \in Workers |-> <<>>]
    /\ b_ok = [w \in Workers |-> FALSE]
    /\ b_found = [w \in Workers |-> 0]
    /\ lock = 0
    /\ b_loaded = [w \in Workers |-> <<0, 0, 0>>]
    /\ total_queries = 0 /\ total_retrieved = 0 /\ total_errors = 0
    /\ b_calls = 0
    /\ calls_after_stop = [w \in Workers |-> 0]
    /\ k_dequeued = NoCounts /\ k_requested = NoCounts
    /\ k_outcome = NoCounts /\ k_counted = NoCounts

\* query_benchmark.py does not run
InitQbIdle ==
    /\ qb_pc = "idle" /\ qb_items = <<>> /\ qb_num_threads = 1
    /\ qb_batch_size = 1 /\ item_chunks = <<>> /\ time_up = FALSE
    /\ work_queue = <<>>
    /\ qt_pc = [t \in Workers |-> "idle"]
    /\ qt_chunk = [t \in Workers |-> 0]
    /\ start_index = [t \in Workers |-> 0]
    /\ thread_local_stats = [t \in Workers |-> <<>>]
    /\ printed = <<>> /\ qb_calls = 0 /\ served = NoCounts
    /\ ok_keys = 0 /\ ok_items = 0 /\ err_keys = 0

\* neither a read benchmark nor map-query-ele-ver.py runs
InitReadersIdle == InitVerIdle /\ InitBenchIdle /\ InitQbIdle

\* no loader runs
InitLoadersIdle ==
    /\ tracing = FALSE /\ max_retries = DefaultMaxRetries
    /\ InitManyIdle /\ InitWorkers /\ InitObs /\ InitRunObs
    /\ InitTasks /\ InitBulkIdle

(***************************************************************************)
(* SpecRetry: one call of a retry function on a batch of 1..RetryBatchMax  *)
(* records: batch_write_with_retry(items, max_retries) of map-insertmany.py *)
(* by worker 1, or batch_write_with_retries(items_batch) of                *)
(* ddb-map-insert.py for batch number 1.                                   *)
(***************************************************************************)
InitRetryMany ==
    /\ script = "retry_many"
    /\ tracing = TRUE
    /\ max_retries \in 0..MaxRetriesIn
    /\ InitGenIdle /\ InitQueryIdle /\ InitDeleteIdle
    /\ InitReadersIdle
    /\ InitManyIdle
    /\ InitObs
    /\ InitRunObs
    /\ InitTasks
    /\ InitBulkIdle
    /\ \E n \in 1..RetryBatchMax :
         /\ w_pc = [w \in Workers |-> IF w = 1 THEN "write" ELSE "idle"]
         /\ w_item = [w \in Workers |->
                IF w = 1 THEN [idx |-> 0, size |-> n] ELSE NoneItem]
         /\ request_items = [w \in Workers |-> IF w = 1 THEN 0..(n - 1) ELSE {}]
    /\ retries = [w \in Workers |-> 0]
    /\ backoff_time = [w \in Workers |-> InitialBackoff]
    /\ success = [w \in Workers |-> FALSE]
    /\ w_loaded = [w \in Workers |-> 0]

InitRetryMap ==
    /\ script = "retry_map"
    /\ tracing = TRUE
    /\ max_retries = MapMaxRetries
    /\ InitGenIdle /\ InitQueryIdle /\ InitDeleteIdle
    /\ InitReadersIdle
    /\ InitManyIdle
    /\ InitWorkers
    /\ InitObs
    /\ InitRunObs
    /\ count = 0
    /\ bulk_pc = "idle"
    /\ success_count = 0 /\ failure_count = 0
    /\ bulk_return = <<0, 0>>
    /\ \E n \in 1..RetryBatchMax : \E all_items \in AllItems(n) :
         /\ batches = [b \in Tasks |->
                IF b = 1 THEN {all_items[i] : i \in 0..(n - 1)} ELSE {}]
         /\ items_batch = batches
    /\ t_pc = [b \in Tasks |-> IF b = 1 THEN "run" ELSE "none"]
    /\ retry_count = [b \in Tasks |-> 0]
    /\ t_result = [b \in Tasks |-> FALSE]

NextRetry ==
    \/ \E w \in Workers : CallResponds(w)
    \/ \E w \in Workers : CallThrottled(w)
    \/ \E w \in Workers : CallError(w)
    \/ \E w \in Workers : CallRaises(w)
    \/ \E w \in Workers : ReturnFalse(w)
    \/ \E b \in Tasks : RetriesResponds(b)
    \/ \E b \in Tasks : RetriesThrottled(b)
    \/ \E b \in Tasks : RetriesError(b)
    \/ \E b \in Tasks : RetriesExhausted(b)

SpecRetry == (InitRetryMany \/ InitRetryMap) /\ [][NextRetry]_vars

(***************************************************************************)
(* map-insertmany.py: parallel_insert_large_dataset.  The producer thread, *)
(* the max_workers consumer threads of the executor and the main thread    *)
(* (the monitor loop) run concurrently; one action is one step of one      *)
(* thread between two points where another thread can interfere.           *)
(***************************************************************************)

\* line 192: queue.Queue(maxsize=max_workers * 2)
QueueFull == Len(batch_queue) >= max_workers * QueueFactor

\* what a step of the producer leaves alone
ProducerFrame ==
    UNCHANGED <<retryIn, elsewhere, manyIn, shared, monitor, wk, runobs, bulkVars, obs,
                submitted, stored>>

\* line 198: while idx < total_items and not done_event.is_set()
ProducerTest ==
    /\ prod_pc = "test"
    /\ prod_pc' = IF prod_idx < total_items /\ ~done_event THEN "put" ELSE "sentinel"
    /\ UNCHANGED <<prod_idx, produced, batch_queue>>
    /\ ProducerFrame

\* line 199: current_batch_size = min(batch_size, total_items - idx)
CurrentBatchSize_Unclipped == batch_size
CurrentBatchSize == Min(batch_size, total_items - prod_idx)

\* lines 199-202: the next batch is generated and put, blocking while the
\* queue is full
ProducerPut ==
    /\ prod_pc = "put"
    /\ ~QueueFull
    /\ LET current_batch_size == CurrentBatchSize
           item == [idx |-> prod_idx, size |-> current_batch_size]
       IN  /\ batch_queue' = Append(batch_queue, item)
           /\ produced' = Append(produced, item)
           /\ prod_idx' = prod_idx + current_batch_size
    /\ prod_pc' = "test"
    /\ ProducerFrame

\* line 205: batch_queue.put(None)
ProducerSentinel ==
    /\ prod_pc = "sentinel"
    /\ ~QueueFull
    /\ batch_queue' = Append(batch_queue, NoneItem)
    /\ prod_pc' = "done"
    /\ UNCHANGED <<prod_idx, produced>>
    /\ ProducerFrame

\* lines 216-236: an iteration of the consumer's loop ends and its locals
\* (item, batch, idx, size, success) are gone
EndIteration(w) ==
    /\ w_item' = [w_item EXCEPT ![w] = NoneItem]
    /\ success' = [success EXCEPT ![w] = FALSE]
    /\ w_loaded' = [w_loaded EXCEPT ![w] = 0]

\* what a step of a consumer outside batch_write_with_retry leaves alone
ConsumerFrame ==
    UNCHANGED <<retryIn, elsewhere, manyIn, monitor, prod, bulkVars, obs, submitted, stored,
                returned_true, exhausted>>

\* line 216: while not done_event.is_set()
ConsumerLoop(w) ==
    /\ w_pc[w] = "loop"
    /\ w_pc' = [w_pc EXCEPT ![w] = IF done_event THEN "exited" ELSE "get"]
    /\ UNCHANGED <<w_item, request_items, retries, backoff_time, success, w_loaded,
                   batch_queue, shared, dequeued, counted_ok, warned,
                   consumer_errors>>
    /\ ConsumerFrame

\* lines 218-224: an item is taken from the queue.  With the sentinel the
\* consumer goes on to put it back (line 220); a batch enters
\* batch_write_with_retry.
ConsumerGet(w) ==
    /\ w_pc[w] = "get"
    /\ batch_queue # <<>>
    /\ LET item == Head(batch_queue)
       IN  IF item = NoneItem
           THEN /\ batch_queue' = Tail(batch_queue)
                /\ w_pc' = [w_pc EXCEPT ![w] = "putback"]
                /\ UNCHANGED <<w_item, request_items, retries, backoff_time,
                               dequeued>>
           ELSE /\ batch_queue' = Tail(batch_queue)
                /\ EnterRetry(w, item)
                /\ w_pc' = [w_pc EXCEPT ![w] = "write"]
                /\ dequeued' = [dequeued EXCEPT ![item.idx] = @ + 1]
    /\ UNCHANGED <<success, w_loaded, shared, counted_ok, warned, consumer_errors>>
    /\ ConsumerFrame

\* line 220: the queue after the consumer that took the sentinel has run
\* batch_queue.put(None)
AfterSentinel_Kept(q) == q
AfterSentinel(q) == Append(q, NoneItem)

\* lines 220-221: the sentinel is put back for the other consumers, blocking
\* while the queue is full, and the loop ends
ConsumerPutBack(w) ==
    /\ w_pc[w] = "putback"
    /\ ~QueueFull
    /\ batch_queue' = AfterSentinel(batch_queue)
    /\ w_pc' = [w_pc EXCEPT ![w] = "exited"]
    /\ UNCHANGED <<w_item, request_items, retries, backoff_time, success, w_loaded,
                   shared, dequeued, counted_ok, warned, consumer_errors>>
    /\ ConsumerFrame

\* lines 218, 233-234: nothing arrives within the timeout: queue.Empty, continue
ConsumerTimeout(w) ==
    /\ w_pc[w] = "get"
    /\ batch_queue = <<>>
    /\ w_pc' = [w_pc EXCEPT ![w] = "loop"]
    /\ UNCHANGED <<w_item, request_items, retries, backoff_time, success, w_loaded,
                   batch_queue, shared, dequeued, counted_ok, warned,
                   consumer_errors>>
    /\ ConsumerFrame

\* lines 235-236: an exception out of batch_write_with_retry is logged as
\* "Consumer error" and the loop goes on
ConsumerExcept(w) ==
    /\ w_pc[w] = "raised"
    /\ consumer_errors' = consumer_errors + 1
    /\ w_pc' = [w_pc EXCEPT ![w] = "loop"]
    /\ EndIteration(w)
    /\ UNCHANGED <<request_items, retries, backoff_time, batch_queue, shared,
                   dequeued, counted_ok, warned>>
    /\ ConsumerFrame

\* line 226: with stats_lock: the lock can be taken when no thread holds it
LockFree_NoLock == TRUE
LockFree == stats_lock = 0

\* lines 226-228: the lock is taken and items_inserted is read
ConsumerAcquire(w) ==
    /\ w_pc[w] = "count"
    /\ LockFree
    /\ stats_lock' = w
    /\ w_loaded' = [w_loaded EXCEPT ![w] = items_inserted]
    /\ w_pc' = [w_pc EXCEPT ![w] = "locked"]
    /\ UNCHANGED <<w_item, request_items, retries, backoff_time, success,
                   batch_queue, items_inserted, dequeued, counted_ok, warned,
                   consumer_errors>>
    /\ ConsumerFrame

\* line 228: items_inserted += size, the value written
Added(w) == w_loaded[w] + w_item[w].size

\* lines 216, 232: after the count the loop goes on with the next item,
\* whatever the result was
AfterCount_BreakOnFailure(w) == IF success[w] THEN "loop" ELSE "exited"
AfterCount(w) == "loop"

\* lines 227-232: the sum is written, or the failure is logged with the
\* batch's index; the lock is released
ConsumerRelease(w) ==
    /\ w_pc[w] = "locked"
    /\ IF success[w]
       THEN /\ items_inserted' = Added(w)
            /\ counted_ok' = [counted_ok EXCEPT ![w_item[w].idx] = @ + 1]
            /\ UNCHANGED warned
       ELSE /\ warned' = [warned EXCEPT ![w_item[w].idx] = @ + 1]
            /\ UNCHANGED <<items_inserted, counted_ok>>
    /\ stats_lock' = 0
    /\ w_pc' = [w_pc EXCEPT ![w] = AfterCount(w)]
    /\ EndIteration(w)
    /\ UNCHANGED <<request_items, retries, backoff_time, batch_queue, dequeued,
                   consumer_errors>>
    /\ ConsumerFrame

\* what a step of the main thread leaves alone
MainFrame ==
    UNCHANGED <<retryIn, elsewhere, manyIn, shared, prod, batch_queue, wk, runobs, bulkVars,
                obs, submitted, stored>>

\* line 244: while items_inserted < total_items and not done_event.is_set()
MonitorRuns == items_inserted < total_items /\ ~done_event

\* lines 244-245: the loop condition; the body starts with time.sleep(5)
MonitorTest ==
    /\ main_pc = "test"
    /\ main_pc' = IF MonitorRuns THEN "sample" ELSE "join"
    /\ UNCHANGED <<items_since_last,
                   last_items_inserted, progress_file,
                   interrupted, done_event>>
    /\ MainFrame

\* lines 249-250: under the lock, items_since_last
MonitorSample ==
    /\ main_pc = "sample"
    /\ stats_lock = 0
    /\ items_since_last' = items_inserted - last_items_inserted
    /\ main_pc' = "log"
    /\ UNCHANGED <<last_items_inserted, progress_file, interrupted, done_event>>
    /\ MainFrame

\* lines 246-247, 252: elapsed = current_time - last_log_time is not above 0
\* (time.time() follows the system clock, which can stand still or be set
\* back): nothing is logged, last_items_inserted and the progress file stay
\* as they are and the loop goes on
MonitorSkip ==
    /\ main_pc = "log"
    /\ main_pc' = "test"
    /\ UNCHANGED <<items_since_last, last_items_inserted, progress_file,
                   interrupted, done_event>>
    /\ MainFrame

\* lines 252-264: elapsed > 0: the rates are logged;
\* last_items_inserted = items_inserted
MonitorLog ==
    /\ main_pc = "log"
    /\ last_items_inserted' = items_inserted
    /\ main_pc' = "save"
    /\ UNCHANGED <<items_since_last,
                   progress_file, interrupted, done_event>>
    /\ MainFrame

\* lines 267-268: the progress file is overwritten
MonitorSave ==
    /\ main_pc = "save"
    /\ progress_file' = start_idx + items_inserted
    /\ main_pc' = "test"
    /\ UNCHANGED <<items_since_last,
                   last_items_inserted, interrupted, done_event>>
    /\ MainFrame

\* lines 270-272: KeyboardInterrupt inside the monitor loop: done_event.set()
Interrupt ==
    /\ main_pc \in {"test", "sample", "log", "save"}
    /\ done_event' = TRUE
    /\ interrupted' = TRUE
    /\ main_pc' = "int_save"
    /\ UNCHANGED <<items_since_last,
                   last_items_inserted, progress_file>>
    /\ MainFrame

\* lines 274-276: the progress file is written before the consumers are joined
InterruptSave ==
    /\ main_pc = "int_save"
    /\ progress_file' = start_idx + items_inserted
    /\ main_pc' = "join"
    /\ UNCHANGED <<items_since_last,
                   last_items_inserted, interrupted, done_event>>
    /\ MainFrame

\* lines 278-292: the futures are waited for and the executor's with block
\* ends when every consumer has ended; the function returns items_inserted
MainReturn ==
    /\ main_pc = "join"
    /\ \A w \in Workers : w_pc[w] \in {"idle", "exited"}
    /\ main_pc' = "returned"
    /\ UNCHANGED <<items_since_last,
                   last_items_inserted, progress_file,
                   interrupted, done_event>>
    /\ MainFrame

\* lines 175-182: start_idx = progress.get('last_index', 0) when the progress
\* file exists, else 0; file is its last_index, -1 when it does not exist
StartIndex_FromZero(file) == 0
StartIndex(file) == IF file = -1 THEN 0 ELSE file

\* lines 174-193, 207-210, 239-240: the progress file is read, the counters
\* are zero, the producer and max_workers consumers are started
InitMany ==
    /\ script = "insertmany"
    /\ tracing = FALSE
    /\ max_retries = DefaultMaxRetries
    /\ InitGenIdle /\ InitQueryIdle /\ InitDeleteIdle
    /\ InitReadersIdle
    /\ total_items \in 1..MaxTotal
    /\ batch_size \in 1..MaxBatchSize
    /\ max_workers \in 1..MaxWorkers
    /\ progress_file \in {-1} \cup 0..total_items
    /\ resumed_from = progress_file
    /\ start_idx = StartIndex(progress_file)
    /\ items_inserted = 0 /\ last_items_inserted = 0 /\ stats_lock = 0
    /\ done_event = FALSE /\ batch_queue = <<>>
    /\ prod_pc = "test" /\ prod_idx = start_idx /\ produced = <<>>
    /\ main_pc = "test" /\ items_since_last = 0
    /\ interrupted = FALSE
    /\ w_pc = [w \in Workers |-> IF w <= max_workers THEN "loop" ELSE "idle"]
    /\ w_item = [w \in Workers |-> NoneItem]
    /\ request_items = [w \in Workers |-> {}]
    /\ retries = [w \in Workers |-> 0]
    /\ backoff_time = [w \in Workers |-> InitialBackoff]
    /\ success = [w \in Workers |-> FALSE]
    /\ w_loaded = [w \in Workers |-> 0]
    /\ InitObs
    /\ InitRunObs
    /\ InitTasks
    /\ InitBulkIdle

NextMany ==
    \/ ProducerTest
    \/ ProducerPut
    \/ ProducerSentinel
    \/ \E w \in Workers : ConsumerLoop(w)
    \/ \E w \in Workers : ConsumerGet(w)
    \/ \E w \in Workers : ConsumerPutBack(w)
    \/ \E w \in Workers : ConsumerTimeout(w)
    \/ \E w \in Workers : CallResponds(w)
    \/ \E w \in Workers : CallThrottled(w)
    \/ \E w \in Workers : CallError(w)
    \/ \E w \in Workers : CallRaises(w)
    \/ \E w \in Workers : ReturnFalse(w)
    \/ \E w \in Workers : ConsumerExcept(w)
    \/ \E w \in Workers : ConsumerAcquire(w)
    \/ \E w \in Workers : ConsumerRelease(w)
    \/ MonitorTest
    \/ MonitorSample
    \/ MonitorLog
    \/ MonitorSkip
    \/ MonitorSave
    \/ Interrupt
    \/ InterruptSave
    \/ MainReturn

SpecInsertMany == InitMany /\ [][NextMany]_vars

(***************************************************************************)
(* ddb-map-insert.py: insert_bulk_data.  executor.map submits one call of  *)
(* batch_write_with_retries per batch; at most max_workers of them run at  *)
(* a time, started in the order of the list; the main thread collects the  *)
(* results and counts them.                                                *)
(***************************************************************************)

\* line 150: range(0, len(all_items), batch_size), the number of batches
NumBatches == (count + batch_size - 1) \div batch_size

\* lines 147-150: batch number b (from 1) is all_items[i:i+batch_size] with
\* i = (b - 1) * batch_size
BatchItems(all_items, b) ==
    {all_items[i] :
        i \in ((b - 1) * batch_size) .. (Min(b * batch_size, count) - 1)}

\* lines 156-157: a free thread of the pool takes the next call of the list
TaskStart(b) ==
    /\ bulk_pc = "map"
    /\ t_pc[b] = "queued"
    /\ \A a \in Tasks : a < b => t_pc[a] # "queued"
    /\ Cardinality({a \in Tasks : t_pc[a] = "run"}) < max_workers
    /\ t_pc' = [t_pc EXCEPT ![b] = "run"]
    /\ items_batch' = [items_batch EXCEPT ![b] = batches[b]]
    /\ retry_count' = [retry_count EXCEPT ![b] = 0]
    /\ UNCHANGED <<t_result, retryIn, elsewhere, manyVars, bulk, obs, submitted,
                   stored>>

\* line 175: return (success_count * batch_size, failure_count * batch_size)
ReturnValue(ok, bad) == <<ok * batch_size, bad * batch_size>>

\* lines 157-175: every result is in; the successes and the failures are
\* counted and the pair of item counts is returned
BulkTally ==
    /\ bulk_pc = "map"
    /\ \A b \in 1..NumBatches : t_pc[b] = "done"
    /\ LET ok == Cardinality({b \in 1..NumBatches : t_result[b]})
           bad == Cardinality({b \in 1..NumBatches : ~t_result[b]})
       IN  /\ success_count' = ok
           /\ failure_count' = bad
           /\ bulk_return' = ReturnValue(ok, bad)
    /\ bulk_pc' = "returned"
    /\ UNCHANGED <<count, batches, task, retryIn, elsewhere, manyVars, obs,
                   submitted, stored>>

\* lines 143-153: the items are generated and split into batches
InitBulk ==
    /\ script = "bulk"
    /\ tracing = FALSE
    /\ max_retries = MapMaxRetries
    /\ InitGenIdle /\ InitQueryIdle /\ InitDeleteIdle
    /\ InitReadersIdle
    /\ count \in 1..MaxCount
    /\ batch_size \in 1..MaxBatchSize
    /\ max_workers \in 1..MaxWorkers
    /\ total_items = 0 /\ start_idx = 0 /\ progress_file = -1
    /\ resumed_from = -1 /\ produced = <<>>
    /\ items_inserted = 0 /\ last_items_inserted = 0 /\ stats_lock = 0
    /\ done_event = FALSE /\ batch_queue = <<>>
    /\ prod_pc = "idle" /\ prod_idx = 0
    /\ main_pc = "idle" /\ items_since_last = 0
    /\ interrupted = FALSE
    /\ InitWorkers
    /\ InitObs
    /\ InitRunObs
    /\ \E all_items \in AllItems(count) :
         batches = [b \in Tasks |->
                       IF b <= NumBatches THEN BatchItems(all_items, b) ELSE {}]
    /\ t_pc = [b \in Tasks |-> IF b <= NumBatches THEN "queued" ELSE "none"]
    /\ items_batch = [b \in Tasks |-> {}]
    /\ retry_count = [b \in Tasks |-> 0]
    /\ t_result = [b \in Tasks |-> FALSE]
    /\ bulk_pc = "map"
    /\ success_count = 0 /\ failure_count = 0
    /\ bulk_return = <<0, 0>>

NextBulk ==
    \/ \E b \in Tasks : TaskStart(b)
    \/ \E b \in Tasks : RetriesResponds(b)
    \/ \E b \in Tasks : RetriesThrottled(b)
    \/ \E b \in Tasks : RetriesError(b)
    \/ \E b \in Tasks : RetriesExhausted(b)
    \/ BulkTally

SpecBulk == InitBulk /\ [][NextBulk]_vars

\* Every thread that can take a step eventually takes one; the interrupt is
\* the user's and may never come.
ProducerStep == ProducerTest \/ ProducerPut \/ ProducerSentinel
ConsumerStep(w) ==
    \/ ConsumerLoop(w) \/ ConsumerGet(w) \/ ConsumerPutBack(w)
    \/ ConsumerTimeout(w)
    \/ CallResponds(w) \/ CallThrottled(w) \/ CallError(w) \/ CallRaises(w)
    \/ ReturnFalse(w) \/ ConsumerExcept(w) \/ ConsumerAcquire(w)
    \/ ConsumerRelease(w)
MainStep ==
    \/ MonitorTest \/ MonitorSample \/ MonitorLog \/ MonitorSkip
    \/ MonitorSave
    \/ InterruptSave \/ MainReturn

FairInsertMany ==
    /\ SpecInsertMany
    /\ WF_vars(ProducerStep)
    /\ \A w \in Workers : WF_vars(ConsumerStep(w))
    /\ WF_vars(MainStep)

\* lines 175-182: a run that finds a progress file holding a last_index
\* above zero, under the same scheduling as FairInsertMany
InitResumed == InitMany /\ 0 < resumed_from

FairResumed ==
    /\ InitResumed /\ [][NextMany]_vars
    /\ WF_vars(ProducerStep)
    /\ \A w \in Workers : WF_vars(ConsumerStep(w))
    /\ WF_vars(MainStep)

\* A run in which the user never interrupts the monitor loop (no
\* KeyboardInterrupt at lines 270-276): done_event is never set.
NextUninterrupted ==
    \/ ProducerTest
    \/ ProducerPut
    \/ ProducerSentinel
    \/ \E w \in Workers : ConsumerLoop(w)
    \/ \E w \in Workers : ConsumerGet(w)
    \/ \E w \in Workers : ConsumerPutBack(w)
    \/ \E w \in Workers : ConsumerTimeout(w)
    \/ \E w \in Workers : CallResponds(w)
    \/ \E w \in Workers : CallThrottled(w)
    \/ \E w \in Workers : CallError(w)
    \/ \E w \in Workers : CallRaises(w)
    \/ \E w \in Workers : ReturnFalse(w)
    \/ \E w \in Workers : ConsumerExcept(w)
    \/ \E w \in Workers : ConsumerAcquire(w)
    \/ \E w \in Workers : ConsumerRelease(w)
    \/ MonitorTest
    \/ MonitorSample
    \/ MonitorLog
    \/ MonitorSkip
    \/ MonitorSave
    \/ MainReturn

\* lines 175-182: the runs that find no progress file or one with a
\* last_index above 0.  A file holding last_index = 0 starts the same run as
\* no file does (start_idx = 0).
InitUninterrupted == InitMany /\ resumed_from # 0

SpecUninterrupted == InitUninterrupted /\ [][NextUninterrupted]_vars

\* The producer eventually takes a step it can take, and so does the pool of
\* consumers: some consumer that can take a step eventually takes one, and a
\* consumer that has taken the sentinel eventually runs the next line, which
\* puts it back.  This asks less of the scheduler than FairInsertMany does.
PoolStep == \E w \in Workers : ConsumerStep(w)
PutBackStep == \E w \in Workers : ConsumerPutBack(w)

FairUninterrupted ==
    /\ SpecUninterrupted
    /\ WF_vars(ProducerStep)
    /\ WF_vars(PoolStep)
    /\ WF_vars(PutBackStep)

\* a run of either script
SpecRun == (InitMany \/ InitBulk) /\ [][NextMany \/ NextBulk]_vars

(***************************************************************************)
(* map-insertmany.py: generate_batch_data.  SpecGenerate observes two      *)
(* calls with the same arguments, the second one made at or after the time *)
(* of the first (a retry of the producer's call in a resumed run).         *)
(***************************************************************************)

\* the str of a sequence of characters
RECURSIVE Str(_)
Str(cs) == IF cs = <<>> THEN "" ELSE cs[1] \o Str(Tail(cs))

\* s.zfill(width) of a string of digits
RECURSIVE ZFill(_, _)
ZFill(cs, width) == IF Len(cs) >= width THEN cs ELSE ZFill(<<"0">> \o cs, width)

\* lines 170-172: the reference lists, indexed from 0
branches(k) == "branch" \o ToString(k)
tiles(k) == "t" \o Str(ZFill(DecStr(k), TileWidth))
element_types == <<"rd", "poi", "bld", "lnd", "trf">>

\* line 100: hashlib.md5(element_value.encode()).hexdigest(), a fixed function
\* of the value
Md5Hex(value) == "md5(" \o value \o ")"

\* lines 81-111: the item of input offset i, generated at current_time
GenerateItem(i, current_time) ==
    LET branch_idx == i % NumBranches
        tile_idx == (i \div TileStride) % NumTiles
        element_type_idx == (i \div TypeStride) % Len(element_types)
        branch == branches(branch_idx)
        tile_base == tiles(tile_idx)
        tile == branch \o "#" \o tile_base
        element_type == element_types[element_type_idx + 1]
        element_id == Str(ZFill(DecStr(i % ElementIdModulus), ElementIdWidth))
        element == element_type \o element_id
        element_value == "value_" \o ToString(i % ValueModulus)
        bte == branch \o "#" \o tile_base \o "#" \o element
        element_md5 == Md5Hex(element_value)
    IN  [bte |-> AttrS(bte),
         tsver |-> AttrN(DecStr(current_time - (i % MsPerDay))),
         branch |-> AttrS(branch),
         tile |-> AttrS(tile),
         element |-> AttrS(element),
         element_value |-> AttrS(element_value),
         element_md5 |-> AttrS(element_md5)]

\* lines 75-115: generate_batch_data(start_idx, batch_size, ...), called when
\* int(time.time() * 1000) is current_time: the list of the PutRequest items
generate_batch_data(start, size, current_time) ==
    [k \in 1..size |-> GenerateItem(start + k - 1, current_time)]

\* the variables the observation of generate_batch_data leaves alone
GenerateFrame == UNCHANGED <<loaderVars, queryVars, deleteVars, readers>>

\* the first call
GenerateFirst ==
    /\ g_pc = "first"
    /\ first_batch' = generate_batch_data(g_start_idx, g_batch_size, clock)
    /\ g_pc' = "second"
    /\ UNCHANGED <<g_start_idx, g_batch_size, clock, second_batch>>
    /\ GenerateFrame

\* line 78: time.time() is a millisecond later
ClockTick ==
    /\ g_pc \in {"first", "second"}
    /\ clock < ClockStart + MaxTicks
    /\ clock' = clock + 1
    /\ UNCHANGED <<g_pc, g_start_idx, g_batch_size, first_batch, second_batch>>
    /\ GenerateFrame

\* the second call, with the same arguments
GenerateSecond ==
    /\ g_pc = "second"
    /\ second_batch' = generate_batch_data(g_start_idx, g_batch_size, clock)
    /\ g_pc' = "done"
    /\ UNCHANGED <<g_start_idx, g_batch_size, clock, first_batch>>
    /\ GenerateFrame

InitGenerate ==
    /\ script = "generate"
    /\ InitLoadersIdle /\ InitQueryIdle /\ InitDeleteIdle
    /\ InitReadersIdle
    /\ g_pc = "first"
    /\ g_start_idx \in 0..MaxGenStart
    /\ g_batch_size \in 1..MaxBatchSize
    /\ clock = ClockStart
    /\ first_batch = <<>> /\ second_batch = <<>>

NextGenerate == GenerateFirst \/ ClockTick \/ GenerateSecond

SpecGenerate == InitGenerate /\ [][NextGenerate]_vars

(***************************************************************************)
(* ddb-map-query.py: query_max_versions_by_block.  The store holds the     *)
(* records the key condition selects, in the order the index gives read    *)
(* backwards; every table.query returns the next records of that order as  *)
(* a page, of a length the store chooses, with a LastEvaluatedKey when     *)
(* records are left and possibly also when none is left.                   *)
(***************************************************************************)

\* a record of the index: its element id and its version, a str or a number
QueryItem(e, v) ==
    [ele |-> e, version |-> IF version_is_str THEN PyStr(DecStr(v)) ELSE PyInt(v)]

\* lines 48, 76: int(item['version']) if it is a str, else item['version']
CurrentVersion(item) ==
    IF item.version.t = "str" THEN ParseDigits(item.version.s) ELSE item.version.n

\* line 29: max_version_int = int(max_version_threshold)
max_version_int == max_version_threshold

\* lines 51, 79: if current_version < max_version_int
BelowThreshold(item) == CurrentVersion(item) < max_version_int

\* lines 56, 85: if ele_id not in seen_elements
Unseen_Always(item) == TRUE
Unseen(item) == item.ele \notin seen_elements

\* the pages the store may return next: the records, whether a
\* LastEvaluatedKey comes with them, and the records left after them
StorePages ==
    IF rest = <<>>
    THEN {[page |-> <<>>, key |-> FALSE, left |-> <<>>]}
    ELSE {pg \in {[page |-> SubSeq(rest, 1, n),
                   key |-> k,
                   left |-> SubSeq(rest, n + 1, Len(rest))] :
                      n \in 1..Len(rest), k \in BOOLEAN} :
             pg.left # <<>> => pg.key}

\* the variables query_max_versions_by_block leaves alone
QueryFrame ==
    UNCHANGED <<loaderVars, genVars, deleteVars, readers, max_version_threshold,
                version_is_str, stream>>

\* lines 38-42: the first table.query
QueryFirst ==
    /\ q_pc = "start"
    /\ \E pg \in StorePages :
         /\ response_items' = pg.page
         /\ response_has_key' = pg.key
         /\ rest' = pg.left
    /\ page_requests' = page_requests + 1
    /\ q_pos' = 1
    /\ q_pc' = "first_loop"
    /\ UNCHANGED <<seen_elements, result_items, items_processed, should_break,
                   below_seen>>
    /\ QueryFrame

\* lines 56-58, 85-87: the item is kept when its element id is new
Keep(item) ==
    IF Unseen(item)
    THEN /\ seen_elements' = seen_elements \cup {item.ele}
         /\ result_items' = Append(result_items, item)
    ELSE UNCHANGED <<seen_elements, result_items>>

\* lines 45-58: one item of the first page; a version below the threshold
\* breaks the for loop
FirstLoopItem ==
    /\ q_pc = "first_loop"
    /\ q_pos <= Len(response_items)
    /\ items_processed' = items_processed + 1
    /\ LET item == response_items[q_pos]
       IN  IF BelowThreshold(item)
           THEN /\ below_seen' = TRUE
                /\ q_pc' = "while"
                /\ UNCHANGED <<seen_elements, result_items, q_pos>>
           ELSE /\ Keep(item)
                /\ q_pos' = q_pos + 1
                /\ UNCHANGED <<q_pc, below_seen>>
    /\ UNCHANGED <<rest, response_items, response_has_key, should_break,
                   page_requests>>
    /\ QueryFrame

\* line 45: the first page is exhausted
FirstLoopEnd ==
    /\ q_pc = "first_loop"
    /\ q_pos > Len(response_items)
    /\ q_pc' = "while"
    /\ UNCHANGED <<rest, response_items, response_has_key, q_pos, seen_elements,
                   result_items, items_processed, should_break, below_seen,
                   page_requests>>
    /\ QueryFrame

\* line 61: while 'LastEvaluatedKey' in response and items_processed > 0
MorePages == response_has_key /\ items_processed > 0

\* lines 61-70: the next table.query, from the LastEvaluatedKey
QueryNext ==
    /\ q_pc = "while"
    /\ MorePages
    /\ \E pg \in StorePages :
         /\ response_items' = pg.page
         /\ response_has_key' = pg.key
         /\ rest' = pg.left
    /\ page_requests' = page_requests + 1
    /\ should_break' = FALSE
    /\ q_pos' = 1
    /\ q_pc' = "page_loop"
    /\ UNCHANGED <<seen_elements, result_items, items_processed, below_seen>>
    /\ QueryFrame

\* lines 73-87: one item of a later page; a version below the threshold sets
\* should_break and breaks the for loop
PageLoopItem ==
    /\ q_pc = "page_loop"
    /\ q_pos <= Len(response_items)
    /\ items_processed' = items_processed + 1
    /\ LET item == response_items[q_pos]
       IN  IF BelowThreshold(item)
           THEN /\ below_seen' = TRUE
                /\ should_break' = TRUE
                /\ q_pc' = "after_page"
                /\ UNCHANGED <<seen_elements, result_items, q_pos>>
           ELSE /\ Keep(item)
                /\ q_pos' = q_pos + 1
                /\ UNCHANGED <<q_pc, below_seen, should_break>>
    /\ UNCHANGED <<rest, response_items, response_has_key, page_requests>>
    /\ QueryFrame

\* line 73: the page is exhausted
PageLoopEnd ==
    /\ q_pc = "page_loop"
    /\ q_pos > Len(response_items)
    /\ q_pc' = "after_page"
    /\ UNCHANGED <<rest, response_items, response_has_key, q_pos, seen_elements,
                   result_items, items_processed, should_break, below_seen,
                   page_requests>>
    /\ QueryFrame

\* lines 90-91: if should_break: break
AfterPage ==
    /\ q_pc = "after_page"
    /\ q_pc' = IF should_break THEN "done" ELSE "while"
    /\ UNCHANGED <<rest, response_items, response_has_key, q_pos, seen_elements,
                   result_items, items_processed, should_break, below_seen,
                   page_requests>>
    /\ QueryFrame

\* lines 61, 93-100: the while loop ends; return result_items
QueryReturn ==
    /\ q_pc = "while"
    /\ ~MorePages
    /\ q_pc' = "done"
    /\ UNCHANGED <<rest, response_items, response_has_key, q_pos, seen_elements,
                   result_items, items_processed, should_break, below_seen,
                   page_requests>>
    /\ QueryFrame

\* the sequences of at most MaxRecords records in descending order of version
DescendingStreams ==
    UNION {{sq \in [1..n -> [e : 1..MaxEle, v : 1..MaxVersion]] :
               \A k \in 1..(n - 1) : sq[k].v >= sq[k + 1].v} : n \in 0..MaxRecords}

\* lines 20-34: the state before the first query
InitQuery ==
    /\ script = "query"
    /\ InitLoadersIdle /\ InitGenIdle /\ InitDeleteIdle
    /\ InitReadersIdle
    /\ q_pc = "start"
    /\ max_version_threshold \in 1..MaxVersion
    /\ version_is_str \in BOOLEAN
    /\ \E sq \in DescendingStreams :
         stream = [k \in DOMAIN sq |-> QueryItem(sq[k].e, sq[k].v)]
    /\ rest = stream
    /\ response_items = <<>> /\ response_has_key = FALSE /\ q_pos = 0
    /\ seen_elements = {} /\ result_items = <<>> /\ items_processed = 0
    /\ should_break = FALSE /\ below_seen = FALSE /\ page_requests = 0

NextQuery ==
    \/ QueryFirst
    \/ FirstLoopItem
    \/ FirstLoopEnd
    \/ QueryNext
    \/ PageLoopItem
    \/ PageLoopEnd
    \/ AfterPage
    \/ QueryReturn

SpecQuery == InitQuery /\ [][NextQuery]_vars

(***************************************************************************)
(* delete_all_items.py: main asks for a confirmation and calls             *)
(* delete_all_items, which describes the table, scans it page by page and  *)
(* deletes the items one by one.  An item is modelled as its key.          *)
(***************************************************************************)

\* the characters a confirmation is typed with
InputChars == {"y", "e", "s", "Y", "E", "S", "n", " "}

\* str.lower(), one character
LowerChar(c) ==
    CASE c = "Y" -> "y"
      [] c = "E" -> "e"
      [] c = "S" -> "s"
      [] OTHER -> c

\* str.lower()
Lower(cs) == [k \in 1..Len(cs) |-> LowerChar(cs[k])]

\* line 77: not (confirmation.lower() != 'yes')
Confirmed_FirstLetter(cs) == cs # <<>> /\ LowerChar(cs[1]) = "y"
Confirmed(cs) == Lower(cs) = <<"y", "e", "s">>

\* the items of a page, as the list the scan returns them in
RECURSIVE PageList(_)
PageList(S) ==
    IF S = {} THEN <<>>
    ELSE LET m == CHOOSE x \in S : \A y \in S : x <= y
         IN  <<m>> \o PageList(S \ {m})

\* the variables delete_all_items.py leaves alone
DeleteFrame ==
    UNCHANGED <<loaderVars, genVars, queryVars, readers, confirmation, table_before>>

\* lines 76-82: the confirmation is read; anything but 'yes' in any case
\* cancels
Confirm ==
    /\ d_pc = "input"
    /\ d_pc' = IF Confirmed(confirmation) THEN "describe" ELSE "cancelled"
    /\ UNCHANGED <<table, unscanned, d_items, d_pos, deleted_count, scan_calls,
                   delete_calls>>
    /\ DeleteFrame

\* lines 16-20: describe_table gives the key schema
DescribeOk ==
    /\ d_pc = "describe"
    /\ d_pc' = "scan"
    /\ unscanned' = table
    /\ UNCHANGED <<table, d_items, d_pos, deleted_count, scan_calls, delete_calls>>
    /\ DeleteFrame

\* lines 21-23: describe_table raises ClientError: return
DescribeFails ==
    /\ d_pc = "describe"
    /\ d_pc' = "returned"
    /\ UNCHANGED <<table, unscanned, d_items, d_pos, deleted_count, scan_calls,
                   delete_calls>>
    /\ DeleteFrame

\* line 31: while 'LastEvaluatedKey' in response: another page is scanned
ScanGoesOn_FirstPageOnly(key) == FALSE
ScanGoesOn(key) == key

\* lines 28-36: a table.scan returns a page of the items not yet returned,
\* with a LastEvaluatedKey when items are left and possibly with the last
\* items too; the loop goes on while the page has a LastEvaluatedKey
ScanPage ==
    /\ d_pc = "scan"
    /\ \E page \in SUBSET unscanned, key \in BOOLEAN :
         /\ unscanned # {} => page # {}
         /\ unscanned = {} => ~key
         /\ page # unscanned => key
         /\ d_items' = d_items \o PageList(page)
         /\ unscanned' = unscanned \ page
         /\ d_pc' = IF ScanGoesOn(key) THEN "scan" ELSE "delete"
    /\ scan_calls' = scan_calls + 1
    /\ d_pos' = 1
    /\ UNCHANGED <<table, deleted_count, delete_calls>>
    /\ DeleteFrame

\* lines 37-39: a table.scan raises ClientError: return
ScanFails ==
    /\ d_pc = "scan"
    /\ d_pc' = "returned"
    /\ scan_calls' = scan_calls + 1
    /\ UNCHANGED <<table, unscanned, d_items, d_pos, deleted_count, delete_calls>>
    /\ DeleteFrame

\* lines 43-50: table.delete_item removes the item
DeleteItem ==
    /\ d_pc = "delete"
    /\ d_pos <= Len(d_items)
    /\ table' = table \ {d_items[d_pos]}
    /\ deleted_count' = deleted_count + 1
    /\ delete_calls' = delete_calls + 1
    /\ d_pos' = d_pos + 1
    /\ UNCHANGED <<d_pc, unscanned, d_items, scan_calls>>
    /\ DeleteFrame

\* lines 56-57: table.delete_item raises ClientError: logged, next item
DeleteFails ==
    /\ d_pc = "delete"
    /\ d_pos <= Len(d_items)
    /\ delete_calls' = delete_calls + 1
    /\ d_pos' = d_pos + 1
    /\ UNCHANGED <<d_pc, table, unscanned, d_items, deleted_count, scan_calls>>
    /\ DeleteFrame

\* lines 59-65: return deleted_count
DeleteReturn ==
    /\ d_pc = "delete"
    /\ d_pos > Len(d_items)
    /\ d_pc' = "returned"
    /\ UNCHANGED <<table, unscanned, d_items, d_pos, deleted_count, scan_calls,
                   delete_calls>>
    /\ DeleteFrame

\* the confirmations of at most MaxInputLen characters
Inputs == UNION {[1..n -> InputChars] : n \in 0..MaxInputLen}

\* lines 67-76: the script waits for the confirmation
InitDelete ==
    /\ script = "delete"
    /\ InitLoadersIdle /\ InitGenIdle /\ InitQueryIdle
    /\ InitReadersIdle
    /\ d_pc = "input"
    /\ confirmation \in Inputs
    /\ table \in SUBSET (1..MaxItems)
    /\ table_before = table
    /\ unscanned = {} /\ d_items = <<>> /\ d_pos = 0 /\ deleted_count = 0
    /\ scan_calls = 0 /\ delete_calls = 0

NextDelete ==
    \/ Confirm
    \/ DescribeOk
    \/ DescribeFails
    \/ ScanPage
    \/ ScanFails
    \/ DeleteItem
    \/ DeleteFails
    \/ DeleteReturn

SpecDelete == InitDelete /\ [][NextDelete]_vars

(***************************************************************************)
(* map-query-ele-ver.py: get_latest_element_versions and                   *)
(* get_latest_element_versions_optimized on the same table                 *)
(* (SpecVersions).                                                         *)
(***************************************************************************)
\* what a step of either function leaves alone
VerFrame ==
    UNCHANGED <<loaderVars, genVars, queryVars, deleteVars, benchVars, qbVars,
                gsi, max_tsver, v_batch_size>>

\* lines 59, 121: Key('tile').eq(tile) & Key('tsver').lte(max_tsver) with
\* ScanIndexForward False: the items of the tile with tsver <= max_tsver, in
\* the order of the index read backwards
Selected == SelectSeq(gsi, LAMBDA item : item.tsver <= max_tsver)

\* the elements that have an entry in a latest_versions dict, kept as the
\* sequence of its values in insertion order
Elements(latest) == {latest[k].element : k \in 1..Len(latest)}

\* latest_versions[element] = {...}: a new key goes to the end of the dict,
\* an existing key keeps its place and gets the new value
DictSet(latest, element, tsver) ==
    IF element \in Elements(latest)
    THEN [k \in 1..Len(latest) |->
             IF latest[k].element = element
             THEN [element |-> element, max_tsver |-> tsver]
             ELSE latest[k]]
    ELSE Append(latest, [element |-> element, max_tsver |-> tsver])

\* lines 82-89: one item of the plain function's loop
PlainRecord(latest, item) ==
    IF item.element \notin Elements(latest)
    THEN DictSet(latest, item.element, item.tsver)
    ELSE latest

\* lines 80-92: the loop over results
RECURSIVE PlainLatest(_, _)
PlainLatest(latest, its) ==
    IF its = <<>> THEN latest
    ELSE PlainLatest(PlainRecord(latest, Head(its)), Tail(its))

\* lines 136-143: one item of the optimized function's loop
OptimizedRecord_Overwrite(latest, item) ==
    DictSet(latest, item.element, item.tsver)
OptimizedRecord(latest, item) ==
    IF item.element \notin Elements(latest)
    THEN DictSet(latest, item.element, item.tsver)
    ELSE latest

\* lines 135-143: the loop over the items of one page
RECURSIVE OptimizedBatch(_, _)
OptimizedBatch(latest, its) ==
    IF its = <<>> THEN latest
    ELSE OptimizedBatch(OptimizedRecord(latest, Head(its)), Tail(its))

\* lines 66-75: a page of the plain query: the store returns the next items,
\* as many as it likes, with a LastEvaluatedKey when items are left and
\* possibly with the last items too; the loop ends on a page without one
PlainPage ==
    /\ v_pc = "plain"
    /\ \E n \in 0..Len(v_rest), key \in BOOLEAN :
         /\ v_rest # <<>> => n > 0
         /\ v_rest = <<>> => ~key
         /\ n < Len(v_rest) => key
         /\ results' = results \o SubSeq(v_rest, 1, n)
         /\ v_rest' = SubSeq(v_rest, n + 1, Len(v_rest))
         /\ v_pc' = IF key THEN "plain" ELSE "plain_loop"
    /\ v_pages' = <<v_pages[1] + 1, v_pages[2]>>
    /\ UNCHANGED <<plain_result, latest_versions, optimized_result,
                   total_items_processed>>
    /\ VerFrame

\* lines 80-98: the latest version of each element is taken from results and
\* returned; the optimized function is called next, lines 113-115
PlainReturn ==
    /\ v_pc = "plain_loop"
    /\ plain_result' = PlainLatest(<<>>, results)
    /\ v_rest' = Selected
    /\ v_pc' = "optimized"
    /\ UNCHANGED <<results, latest_versions, optimized_result,
                   total_items_processed, v_pages>>
    /\ VerFrame

\* lines 129-150: a page of the optimized query, of at most Limit items, is
\* processed; the loop ends on a page without a LastEvaluatedKey
OptimizedPage ==
    /\ v_pc = "optimized"
    /\ \E n \in 0..Min(v_batch_size, Len(v_rest)), key \in BOOLEAN :
         /\ v_rest # <<>> => n > 0
         /\ v_rest = <<>> => ~key
         /\ n < Len(v_rest) => key
         /\ total_items_processed' = total_items_processed + n
         /\ latest_versions' = OptimizedBatch(latest_versions, SubSeq(v_rest, 1, n))
         /\ v_rest' = SubSeq(v_rest, n + 1, Len(v_rest))
         /\ v_pc' = IF key THEN "optimized" ELSE "optimized_end"
    /\ v_pages' = <<v_pages[1], v_pages[2] + 1>>
    /\ UNCHANGED <<results, plain_result, optimized_result>>
    /\ VerFrame

\* lines 153-160: the values of latest_versions are returned
OptimizedReturn ==
    /\ v_pc = "optimized_end"
    /\ optimized_result' = latest_versions
    /\ v_pc' = "done"
    /\ UNCHANGED <<v_rest, results, plain_result, latest_versions,
                   total_items_processed, v_pages>>
    /\ VerFrame

\* lines 100-102, 162-164: a table.query call raises: the call has been
\* made, the error is logged and raised again
QueryRaises ==
    /\ v_pc \in {"plain", "optimized"}
    /\ v_pc' = "raised"
    /\ v_pages' = IF v_pc = "plain" THEN <<v_pages[1] + 1, v_pages[2]>>
                  ELSE <<v_pages[1], v_pages[2] + 1>>
    /\ UNCHANGED <<v_rest, results, plain_result, latest_versions,
                   optimized_result, total_items_processed>>
    /\ VerFrame

\* the tables of at most MaxTileRecords items of one tile, in descending
\* order of tsver
TileIndexes ==
    UNION {{sq \in [1..n -> [element : 1..MaxEle, tsver : 1..MaxTsver]] :
               \A k \in 1..(n - 1) : sq[k].tsver >= sq[k + 1].tsver} :
           n \in 0..MaxTileRecords}

\* lines 52-53, 113-115: the state before the first query
InitVersions ==
    /\ script = "versions"
    /\ InitLoadersIdle /\ InitGenIdle /\ InitQueryIdle /\ InitDeleteIdle
    /\ InitBenchIdle /\ InitQbIdle
    /\ v_pc = "plain"
    /\ gsi \in TileIndexes
    /\ max_tsver \in 0..MaxTsver
    /\ v_batch_size \in 1..MaxLimit
    /\ v_rest = Selected
    /\ results = <<>> /\ plain_result = <<>>
    /\ latest_versions = <<>> /\ optimized_result = <<>>
    /\ total_items_processed = 0 /\ v_pages = <<0, 0>>

NextVersions ==
    \/ PlainPage
    \/ PlainReturn
    \/ OptimizedPage
    \/ OptimizedReturn
    \/ QueryRaises

SpecVersions == InitVersions /\ [][NextVersions]_vars

(***************************************************************************)
(* ddb-bench-batchget.py and ddb-bench-query.py: the workers of a          *)
(* benchmark, the shared counters and the stop event (SpecBench).          *)
(***************************************************************************)
\* what a step of a benchmark leaves alone
BenchFrame ==
    UNCHANGED <<loaderVars, genVars, queryVars, deleteVars, verVars, qbVars, benchIn>>

\* the number of times key k is in the list keys
Occurrences(keys, k) == Cardinality({i \in 1..Len(keys) : keys[i] = k})

\* a count per key with the keys of a call added
Counted(f, keys) == [k \in DOMAIN f |-> f[k] + Occurrences(keys, k)]

\* ddb-bench-batchget.py line 76, ddb-bench-query.py line 56:
\* while not stop_event.is_set()
LoopGoesOn_Ignored(stop) == TRUE
LoopGoesOn(stop) == ~stop

\* ddb-bench-batchget.py lines 76-77, ddb-bench-query.py line 56: the loop
\* test.  Before the stop event at most MaxBenchCalls calls of
\* ddb-bench-query.py begin.
WorkerTest(w) ==
    /\ bw_pc[w] = "test"
    /\ stop_event \/ script = "batchget" \/ b_calls < MaxBenchCalls
    /\ bw_pc' = [bw_pc EXCEPT ![w] = IF LoopGoesOn(stop_event) THEN "fill" ELSE "exited"]
    /\ UNCHANGED <<benchMain, oneid_queue, batch, b_ok, b_found, lock, b_loaded,
                   counters, benchObs>>
    /\ BenchFrame

\* ddb-bench-batchget.py lines 49-51: batch.append(oneid_queue.get_nowait())
BatchGetNext(w) ==
    /\ script = "batchget"
    /\ bw_pc[w] = "fill"
    /\ Len(batch[w]) < bench_batch_size
    /\ oneid_queue # <<>>
    /\ batch' = [batch EXCEPT ![w] = Append(@, Head(oneid_queue))]
    /\ oneid_queue' = Tail(oneid_queue)
    /\ k_dequeued' = Counted(k_dequeued, <<Head(oneid_queue)>>)
    /\ UNCHANGED <<benchMain, bw_pc, b_ok, b_found, lock, b_loaded, counters,
                   b_calls, calls_after_stop, k_requested, k_outcome, k_counted>>
    /\ BenchFrame

\* a call with the keys begins
StartCall(w, keys) ==
    /\ b_calls' = b_calls + 1
    /\ calls_after_stop' =
           [calls_after_stop EXCEPT ![w] = IF stop_event THEN @ + 1 ELSE @]
    /\ k_requested' = Counted(k_requested, keys)

\* ddb-bench-batchget.py lines 55-56: if not batch: return
NoCall(keys) == keys = <<>>

\* ddb-bench-batchget.py lines 49-59: the for loop ends after batch_size keys
\* or on queue.Empty; an empty batch returns, any other is sent
BatchFilled(w) ==
    /\ script = "batchget"
    /\ bw_pc[w] = "fill"
    /\ Len(batch[w]) = bench_batch_size \/ oneid_queue = <<>>
    /\ IF NoCall(batch[w])
       THEN /\ bw_pc' = [bw_pc EXCEPT ![w] = "test"]
            /\ UNCHANGED <<b_calls, calls_after_stop, k_requested>>
       ELSE /\ bw_pc' = [bw_pc EXCEPT ![w] = "call"]
            /\ StartCall(w, batch[w])
    /\ UNCHANGED <<benchMain, oneid_queue, batch, b_ok, b_found, lock, b_loaded,
                   counters, k_dequeued, k_outcome, k_counted>>
    /\ BenchFrame

\* ddb-bench-query.py lines 57-59: oneid = random.choice(oneids); the query
\* of this key begins
ChooseOneid(w) ==
    /\ script = "benchquery"
    /\ bw_pc[w] = "fill"
    /\ \E oneid \in oneids :
         /\ batch' = [batch EXCEPT ![w] = <<oneid>>]
         /\ StartCall(w, <<oneid>>)
    /\ bw_pc' = [bw_pc EXCEPT ![w] = "call"]
    /\ UNCHANGED <<benchMain, oneid_queue, b_ok, b_found, lock, b_loaded,
                   counters, k_dequeued, k_outcome, k_counted>>
    /\ BenchFrame

\* the outcome of the call is noted for each of its keys
Outcome(keys, what) ==
    [k \in DOMAIN k_outcome |->
        IF Occurrences(keys, k) > 0 THEN what ELSE k_outcome[k]]

\* ddb-bench-batchget.py lines 59-66, ddb-bench-query.py lines 59-61: the
\* call returns, with some of the items asked for
BenchResponds(w) ==
    /\ bw_pc[w] = "call"
    /\ \E n \in 0..Len(batch[w]) : b_found' = [b_found EXCEPT ![w] = n]
    /\ b_ok' = [b_ok EXCEPT ![w] = TRUE]
    /\ k_outcome' = Outcome(batch[w], "ok")
    /\ bw_pc' = [bw_pc EXCEPT ![w] = "count"]
    /\ UNCHANGED <<benchMain, oneid_queue, batch, lock, b_loaded, counters,
                   b_calls, calls_after_stop, k_dequeued, k_requested, k_counted>>
    /\ BenchFrame

\* ddb-bench-batchget.py line 70, ddb-bench-query.py line 65: the call raises
BenchRaises(w) ==
    /\ bw_pc[w] = "call"
    /\ b_ok' = [b_ok EXCEPT ![w] = FALSE]
    /\ k_outcome' = Outcome(batch[w], "err")
    /\ bw_pc' = [bw_pc EXCEPT ![w] = "count"]
    /\ UNCHANGED <<benchMain, oneid_queue, batch, b_found, lock, b_loaded,
                   counters, b_calls, calls_after_stop, k_dequeued, k_requested,
                   k_counted>>
    /\ BenchFrame

\* ddb-bench-batchget.py lines 67, 71, ddb-bench-query.py lines 62, 66:
\* with lock: the lock can be taken when no thread holds it
BenchLockFree_NoLock == TRUE
BenchLockFree == lock = 0

\* the same lines: the lock is taken and the counters are read
BenchAcquire(w) ==
    /\ bw_pc[w] = "count"
    /\ BenchLockFree
    /\ lock' = w
    /\ b_loaded' = [b_loaded EXCEPT ![w] = <<total_queries, total_retrieved, total_errors>>]
    /\ bw_pc' = [bw_pc EXCEPT ![w] = "locked"]
    /\ UNCHANGED <<benchMain, oneid_queue, batch, b_ok, b_found, counters, benchObs>>
    /\ BenchFrame

\* ddb-bench-batchget.py lines 69, 72, ddb-bench-query.py lines 64, 67: the
\* lock after the with block
Unlocked_Kept(w) == w
Unlocked(w) == 0

\* ddb-bench-batchget.py lines 68-69 or 72, ddb-bench-query.py lines 63-64
\* or 67: the counters are written and the lock is released; query_batch
\* returns to the loop test
BenchRelease(w) ==
    /\ bw_pc[w] = "locked"
    /\ IF b_ok[w]
       THEN /\ total_queries' = b_loaded[w][1] + Len(batch[w])
            /\ total_retrieved' = b_loaded[w][2] + b_found[w]
            /\ UNCHANGED total_errors
       ELSE /\ total_errors' = b_loaded[w][3] + Len(batch[w])
            /\ UNCHANGED <<total_queries, total_retrieved>>
    /\ k_counted' = Counted(k_counted, batch[w])
    /\ lock' = Unlocked(w)
    /\ batch' = [batch EXCEPT ![w] = <<>>]
    /\ b_ok' = [b_ok EXCEPT ![w] = FALSE]
    /\ b_found' = [b_found EXCEPT ![w] = 0]
    /\ b_loaded' = [b_loaded EXCEPT ![w] = <<0, 0, 0>>]
    /\ bw_pc' = [bw_pc EXCEPT ![w] = "test"]
    /\ UNCHANGED <<benchMain, oneid_queue, b_calls, calls_after_stop,
                   k_dequeued, k_requested, k_outcome>>
    /\ BenchFrame

\* ddb-bench-batchget.py lines 83-84, ddb-bench-query.py lines 86-89: the
\* duration has passed; the stop event is set
BenchStop ==
    /\ b_pc = "sleep"
    /\ stop_event' = TRUE
    /\ b_pc' = "stopped"
    /\ UNCHANGED <<oneid_queue, bw_pc, batch, b_ok, b_found, lock, b_loaded,
                   counters, benchObs>>
    /\ BenchFrame

\* ddb-bench-batchget.py lines 85-86, ddb-bench-query.py lines 92-93: every
\* future has its result and the executor's with block ends
BenchReturn ==
    /\ b_pc = "stopped"
    /\ \A w \in 1..num_threads : bw_pc[w] = "exited"
    /\ b_pc' = "returned"
    /\ UNCHANGED <<stop_event, oneid_queue, bw_pc, batch, b_ok, b_found, lock,
                   b_loaded, counters, benchObs>>
    /\ BenchFrame

\* the keys 1..n in the order of the scan
KeySeq(n) == [k \in 1..n |-> k]

\* ddb-bench-batchget.py lines 88-101, ddb-bench-query.py lines 73-83: the
\* scan has found at least one key; the workers are submitted
InitBench ==
    /\ script \in {"batchget", "benchquery"}
    /\ InitLoadersIdle /\ InitGenIdle /\ InitQueryIdle /\ InitDeleteIdle
    /\ InitVerIdle /\ InitQbIdle
    /\ b_pc = "sleep" /\ stop_event = FALSE
    /\ num_threads \in 1..MaxWorkers
    /\ \E n \in 1..MaxKeys :
         /\ IF script = "batchget"
            THEN /\ oneid_queue = KeySeq(n) /\ oneids = {}
                 /\ bench_batch_size \in 1..MaxBenchBatch
            ELSE /\ oneid_queue = <<>> /\ oneids = 1..n
                 /\ bench_batch_size = 1
         /\ k_dequeued = [k \in 1..n |-> 0]
         /\ k_requested = [k \in 1..n |-> 0]
         /\ k_outcome = [k \in 1..n |-> "none"]
         /\ k_counted = [k \in 1..n |-> 0]
    /\ bw_pc = [w \in Workers |-> IF w <= num_threads THEN "test" ELSE "idle"]
    /\ batch = [w \in Workers |-> <<>>]
    /\ b_ok = [w \in Workers |-> FALSE]
    /\ b_found = [w \in Workers |-> 0]
    /\ lock = 0
    /\ b_loaded = [w \in Workers |-> <<0, 0, 0>>]
    /\ total_queries = 0 /\ total_retrieved = 0 /\ total_errors = 0
    /\ b_calls = 0
    /\ calls_after_stop = [w \in Workers |-> 0]

NextBench ==
    \/ \E w \in Workers : WorkerTest(w)
    \/ \E w \in Workers : BatchGetNext(w)
    \/ \E w \in Workers : BatchFilled(w)
    \/ \E w \in Workers : ChooseOneid(w)
    \/ \E w \in Workers : BenchResponds(w)
    \/ \E w \in Workers : BenchRaises(w)
    \/ \E w \in Workers : BenchAcquire(w)
    \/ \E w \in Workers : BenchRelease(w)
    \/ BenchStop
    \/ BenchReturn

SpecBench == InitBench /\ [][NextBench]_vars

\* the steps of one worker and of the main thread
BenchWorkerStep(w) ==
    \/ WorkerTest(w) \/ BatchGetNext(w) \/ BatchFilled(w) \/ ChooseOneid(w)
    \/ BenchResponds(w) \/ BenchRaises(w) \/ BenchAcquire(w) \/ BenchRelease(w)
BenchMainStep == BenchStop \/ BenchReturn

\* every thread that can take a step eventually takes one, and every call
\* returns or raises (the client's timeouts)
FairBench ==
    /\ SpecBench
    /\ \A w \in Workers : WF_vars(BenchWorkerStep(w))
    /\ WF_vars(BenchMainStep)

\* a run of map-insertmany.py or of a benchmark with a lock
SpecLocks == (InitMany \/ InitBench) /\ [][NextMany \/ NextBench]_vars

(***************************************************************************)
(* query_benchmark.py: split_items, the pool's workers with their          *)
(* thread-local stats, and the totals printed (SpecQueryBench).            *)
(***************************************************************************)
\* what a step of query_benchmark.py leaves alone
QbFrame ==
    UNCHANGED <<loaderVars, genVars, queryVars, deleteVars, verVars, benchVars, qbIn>>

\* line 30: items_per_thread = len(items) // num_threads
ItemsPerThread(its, n) == Len(its) \div n

\* line 31: range(0, len(items), items_per_thread) raises ValueError when the
\* step is zero
SplitRaises(its, n) == ItemsPerThread(its, n) = 0

\* line 31: [items[i:i + items_per_thread] for i in range(0, len(items),
\* items_per_thread)], for a step that is not zero
split_items(its, n) ==
    LET p == ItemsPerThread(its, n)
        c == (Len(its) + p - 1) \div p
    IN  [j \in 1..c |-> SubSeq(its, (j - 1) * p + 1, Min(j * p, Len(its)))]

\* lines 88-91, 66-68: split_items raises, or its chunks are submitted to a
\* pool of at most num_threads threads; a thread is started for each chunk
\* while fewer than num_threads exist, the other chunks wait in the pool's
\* queue
Split ==
    /\ qb_pc = "split"
    /\ IF SplitRaises(qb_items, qb_num_threads)
       THEN /\ qb_pc' = "raised"
            /\ UNCHANGED <<item_chunks, work_queue, qt_pc, served>>
       ELSE /\ qb_pc' = "run"
            /\ item_chunks' = split_items(qb_items, qb_num_threads)
            /\ work_queue' = KeySeq(Len(item_chunks'))
            /\ qt_pc' = [t \in Workers |->
                           IF t <= Min(qb_num_threads, Len(item_chunks'))
                           THEN "free" ELSE "idle"]
            /\ served' = [c \in 1..Len(item_chunks') |-> 0]
    /\ UNCHANGED <<time_up, qt_chunk, start_index, thread_local_stats, printed,
                   qb_calls, ok_keys, ok_items, err_keys>>
    /\ QbFrame

\* lines 58-59: a pool thread takes the next chunk from the pool's queue and
\* calls worker(chunk, end_time): start_index = 0
TakeChunk(t) ==
    /\ qb_pc = "run"
    /\ qt_pc[t] = "free"
    /\ work_queue # <<>>
    /\ qt_chunk' = [qt_chunk EXCEPT ![t] = Head(work_queue)]
    /\ work_queue' = Tail(work_queue)
    /\ start_index' = [start_index EXCEPT ![t] = 0]
    /\ qt_pc' = [qt_pc EXCEPT ![t] = "test"]
    /\ UNCHANGED <<qb_pc, item_chunks, time_up, thread_local_stats, printed, qbObs>>
    /\ QbFrame

\* line 60: while time.time() < end_time; when the time is up worker
\* returns.  Before the time is up at most MaxQbCalls calls begin.
WorkerLoop(t) ==
    /\ qt_pc[t] = "test"
    /\ time_up \/ qb_calls < MaxQbCalls
    /\ IF time_up
       THEN /\ qt_pc' = [qt_pc EXCEPT ![t] = "free"]
            /\ UNCHANGED qb_calls
       ELSE /\ qt_pc' = [qt_pc EXCEPT ![t] = "call"]
            /\ qb_calls' = qb_calls + 1
    /\ UNCHANGED <<qb_pc, item_chunks, time_up, work_queue, qt_chunk, start_index,
                   thread_local_stats, printed, served, ok_keys, ok_items,
                   err_keys>>
    /\ QbFrame

\* line 34: end_index = min(start_index + batch_size, len(items))
EndIndex(t) ==
    Min(start_index[t] + qb_batch_size, Len(item_chunks[qt_chunk[t]]))

\* line 35: batch = items[start_index:end_index]
QbBatch(t) == SubSeq(item_chunks[qt_chunk[t]], start_index[t] + 1, EndIndex(t))

\* lines 47-48, 52-53: thread_local.stats, made on the thread's first use
Stats(t) ==
    IF thread_local_stats[t] = <<>>
    THEN [queries |-> 0, items |-> 0, errors |-> 0]
    ELSE thread_local_stats[t]

\* lines 56, 61-63: query_batch returns end_index; worker goes back to the
\* start of its chunk after the end
NextStart(t) ==
    IF EndIndex(t) >= Len(item_chunks[qt_chunk[t]]) THEN 0 ELSE EndIndex(t)

\* lines 37-50: batch_get_item returns with some of the items; the thread's
\* stats count the keys and the items
QbResponds(t) ==
    /\ qt_pc[t] = "call"
    /\ \E retrieved_items \in 0..Len(QbBatch(t)) :
         /\ thread_local_stats' =
                [thread_local_stats EXCEPT ![t] =
                    [queries |-> Stats(t).queries + Len(QbBatch(t)),
                     items |-> Stats(t).items + retrieved_items,
                     errors |-> Stats(t).errors]]
         /\ ok_items' = ok_items + retrieved_items
    /\ ok_keys' = ok_keys + Len(QbBatch(t))
    /\ served' = [served EXCEPT ![qt_chunk[t]] = @ + 1]
    /\ start_index' = [start_index EXCEPT ![t] = NextStart(t)]
    /\ qt_pc' = [qt_pc EXCEPT ![t] = "test"]
    /\ UNCHANGED <<qb_pc, item_chunks, time_up, work_queue, qt_chunk, printed,
                   qb_calls, err_keys>>
    /\ QbFrame

\* lines 51-55: batch_get_item raises; the thread's stats count the keys as
\* errors
QbRaises(t) ==
    /\ qt_pc[t] = "call"
    /\ thread_local_stats' =
           [thread_local_stats EXCEPT ![t] =
               [queries |-> Stats(t).queries,
                items |-> Stats(t).items,
                errors |-> Stats(t).errors + Len(QbBatch(t))]]
    /\ err_keys' = err_keys + Len(QbBatch(t))
    /\ served' = [served EXCEPT ![qt_chunk[t]] = @ + 1]
    /\ start_index' = [start_index EXCEPT ![t] = NextStart(t)]
    /\ qt_pc' = [qt_pc EXCEPT ![t] = "test"]
    /\ UNCHANGED <<qb_pc, item_chunks, time_up, work_queue, qt_chunk, printed,
                   qb_calls, ok_keys, ok_items>>
    /\ QbFrame

\* line 66: end_time = time.time() + duration: the clock passes end_time
TimeUp ==
    /\ qb_pc = "run"
    /\ ~time_up
    /\ time_up' = TRUE
    /\ UNCHANGED <<qb_pc, item_chunks, work_queue, qt_pc, qt_chunk, start_index,
                   thread_local_stats, printed, qbObs>>
    /\ QbFrame

\* lines 69-70: every future has its result; the executor's with block ends
\* and with it the pool's threads
QbJoin ==
    /\ qb_pc = "run"
    /\ work_queue = <<>>
    /\ \A t \in Workers : qt_pc[t] \in {"idle", "free"}
    /\ qt_pc' = [t \in Workers |-> IF qt_pc[t] = "free" THEN "ended" ELSE qt_pc[t]]
    /\ qb_pc' = "aggregate"
    /\ UNCHANGED <<item_chunks, time_up, work_queue, qt_chunk, start_index,
                   thread_local_stats, printed, qbObs>>
    /\ QbFrame

\* lines 95-97: threading.enumerate(): the main thread (0) and the pool
\* threads that are alive
Enumerate == {0} \cup {t \in Workers : qt_pc[t] \notin {"idle", "ended"}}

\* lines 95-97: getattr(thread, 'stats', {}): no statement gives a Thread
\* object a stats attribute (the stats are attributes of thread_local), so
\* the default is taken and its get returns 0
ThreadAttrStats(thread) == [queries |-> 0, items |-> 0, errors |-> 0]

\* lines 95-97: sum(... for thread in threading.enumerate())
RECURSIVE SumOver(_, _)
SumOver(threads, field) ==
    IF threads = {} THEN 0
    ELSE LET th == CHOOSE x \in threads : TRUE
         IN  ThreadAttrStats(th)[field] + SumOver(threads \ {th}, field)

\* lines 95-106: the totals are summed and printed
Aggregate ==
    /\ qb_pc = "aggregate"
    /\ printed' = <<SumOver(Enumerate, "queries"), SumOver(Enumerate, "items"),
                    SumOver(Enumerate, "errors")>>
    /\ qb_pc' = "printed"
    /\ UNCHANGED <<item_chunks, time_up, work_queue, qt_pc, qt_chunk, start_index,
                   thread_local_stats, qbObs>>
    /\ QbFrame

\* lines 73-88: the items are loaded from the file and are not empty
InitQueryBench ==
    /\ script = "querybench"
    /\ InitLoadersIdle /\ InitGenIdle /\ InitQueryIdle /\ InitDeleteIdle
    /\ InitVerIdle /\ InitBenchIdle
    /\ qb_pc = "split"
    /\ \E n \in 1..MaxFileItems : qb_items = KeySeq(n)
    /\ qb_num_threads \in 1..MaxWorkers
    /\ qb_batch_size \in 1..MaxBenchBatch
    /\ item_chunks = <<>> /\ time_up = FALSE /\ work_queue = <<>>
    /\ qt_pc = [t \in Workers |-> "idle"]
    /\ qt_chunk = [t \in Workers |-> 0]
    /\ start_index = [t \in Workers |-> 0]
    /\ thread_local_stats = [t \in Workers |-> <<>>]
    /\ printed = <<>> /\ qb_calls = 0 /\ served = NoCounts
    /\ ok_keys = 0 /\ ok_items = 0 /\ err_keys = 0

NextQueryBench ==
    \/ Split
    \/ \E t \in Workers : TakeChunk(t)
    \/ \E t \in Workers : WorkerLoop(t)
    \/ \E t \in Workers : QbResponds(t)
    \/ \E t \in Workers : QbRaises(t)
    \/ TimeUp
    \/ QbJoin
    \/ Aggregate

SpecQueryBench == InitQueryBench /\ [][NextQueryBench]_vars

(***************************************************************************)
(* The retry functions called on their own (SpecRetry).                    *)
(***************************************************************************)
\* the retry function called for p has returned
Returned(p) ==
    IF script = "retry_many" THEN w_pc[p] = "count" ELSE t_pc[p] = "done"
\* it is between two calls of the store
Running(p) ==
    IF script = "retry_many" THEN w_pc[p] = "write" ELSE t_pc[p] = "run"
\* its return value
Result(p) == IF script = "retry_many" THEN success[p] ELSE t_result[p]
\* the write requests of the batch it was called with
OriginalBatch(p) ==
    IF script = "retry_many" THEN Records(w_item[p]) ELSE ToRequest(batches[p])
\* the write requests its next call would carry
Remainder(p) ==
    IF script = "retry_many" THEN request_items[p] ELSE ToRequest(items_batch[p])

\* C1: a retry function returns True if and only if every record of the
\* original batch has been reported accepted by the store, and at every moment
\* every record of the batch is either accepted or still in the remainder to
\* send (none is dropped).
C1_TrueIffAllAccepted ==
    /\ Returned(1) => (Result(1) <=> accepted[1] = OriginalBatch(1))
    /\ accepted[1] \subseteq OriginalBatch(1)
    /\ Running(1) =>
         \A r \in OriginalBatch(1) : r \in accepted[1] \/ r \in Remainder(1)

\* C1 witness: batch_write_with_retries has returned True for a batch of three
\* records after partial responses and a throttling error.
C1_Witness ==
    /\ script = "retry_map"
    /\ Returned(1) /\ Result(1)
    /\ Cardinality(OriginalBatch(1)) = 3
    /\ calls[1] >= 3 /\ saw_error[1]
    /\ Cardinality(sent[1]) = 1

\* C2: every external call leaves out the requests already reported processed,
\* and once a call has returned a response every later call carries exactly
\* the requests the latest response reported unprocessed.
C2_OnlyUnprocessedResent ==
    [][calls'[1] = calls[1] + 1 =>
          /\ sent'[1] \cap accepted[1] = {}
          /\ got_response[1] => sent'[1] = reported[1]]_vars

\* C2 witness: a third call of batch_write_with_retries carried a proper,
\* non-empty part of the batch, after a response and a throttling error.
C2_Witness ==
    /\ script = "retry_map"
    /\ calls[1] >= 3 /\ got_response[1] /\ saw_error[1]
    /\ sent[1] # {} /\ sent[1] # OriginalBatch(1)
    /\ sent[1] \subseteq OriginalBatch(1)

\* C3: while the store only answers with responses (fully accepted or a
\* non-empty unprocessed part), no call follows the first fully accepted one,
\* and at the return the number of calls is the index of the first fully
\* accepted call, with result True, or max_retries when there is none, with
\* result False.
C3_ExactCallCount ==
    ~saw_error[1] =>
        /\ first_ok[1] # 0 => calls[1] = first_ok[1]
        /\ calls[1] <= max_retries
        /\ Returned(1) =>
             /\ calls[1] = IF first_ok[1] # 0 THEN first_ok[1] ELSE max_retries
             /\ Result(1) <=> first_ok[1] # 0

\* C3 witness: batch_write_with_retry with max_retries = 5 has returned False
\* after five calls that each left items unprocessed.
C3_Witness ==
    /\ script = "retry_many" /\ max_retries = DefaultMaxRetries
    /\ Returned(1) /\ ~Result(1)
    /\ ~saw_error[1] /\ first_ok[1] = 0
    /\ calls[1] = DefaultMaxRetries

\* C4: the call on which the first non-throttling client error came is the
\* last call of the batch, and the function has returned False with it.
C4_OtherErrorAbandons ==
    calls_at_error[1] # 0 =>
        /\ calls[1] = calls_at_error[1]
        /\ Returned(1) /\ ~Result(1)

\* C10: in batch_write_with_retry each sleep is at least as long as the one
\* before it, a sleep on the unprocessed-items path is at most 1000 ms and a
\* sleep on the throttling path at most 2000 ms.
C10_BackoffMonotoneCapped ==
    script = "retry_many" =>
        /\ prev_slept[1] <= slept[1]
        /\ slept_path[1] = "response" => slept[1] <= UnprocessedCap
        /\ slept_path[1] = "throttle" => slept[1] <= ThrottleCap

(***************************************************************************)
(* Whole runs (SpecBulk, SpecInsertMany, FairInsertMany,                   *)
(* FairUninterrupted, SpecRun).                                            *)
(***************************************************************************)
\* every consumer thread of the run has ended
AllExited == \A w \in 1..max_workers : w_pc[w] = "exited"

\* the offsets at which the producer's batches start
BatchOffsets ==
    {i \in start_idx..(total_items - 1) : (i - start_idx) % batch_size = 0}

\* the sizes of the batches whose result is True and not yet counted
RECURSIVE PendingSizes(_)
PendingSizes(W) ==
    IF W = {} THEN 0
    ELSE LET w == CHOOSE x \in W : TRUE
         IN  (IF w_pc[w] \in {"count", "locked"} /\ success[w]
              THEN w_item[w].size ELSE 0) + PendingSizes(W \ {w})

\* C5: insert_bulk_data returns item counts whose sum is count.
C5_CountersSumToCount ==
    (script = "bulk" /\ bulk_pc = "returned") =>
        bulk_return[1] + bulk_return[2] = count

\* C6: no batch is dequeued twice or counted twice, and when every consumer
\* of an uninterrupted run has ended every batch has been dequeued once and
\* counted once, as succeeded or as failed.
C6_CountedExactlyOnce ==
    script = "insertmany" =>
        /\ \A i \in BatchOffsets :
             dequeued[i] <= 1 /\ counted_ok[i] + warned[i] <= 1
        /\ (AllExited /\ ~done_event) =>
             \A i \in BatchOffsets :
                 dequeued[i] = 1 /\ counted_ok[i] + warned[i] = 1

\* C7: items_inserted is the sum of the sizes of the batches whose
\* batch_write_with_retry returned True, less those a consumer is about to
\* add; when every consumer has ended nothing is left to add.
C7_NoLostUpdate ==
    script = "insertmany" =>
        /\ items_inserted + PendingSizes(Workers) = returned_true
        /\ AllExited => items_inserted = returned_true

\* C7 witness: two consumers have each counted a batch and have ended.
C7_Witness ==
    /\ script = "insertmany" /\ max_workers = 2 /\ batch_size = 1
    /\ start_idx = 0 /\ total_items = 2
    /\ AllExited /\ ~done_event
    /\ counted_ok[0] = 1 /\ counted_ok[1] = 1
    /\ items_inserted = 2

\* C8: in a run from offset 0, once every consumer has ended without an
\* interrupt (every batch has succeeded or failed for good), the function
\* eventually returns, unless an interrupt comes.
C8_EventuallyReturns ==
    (script = "insertmany" /\ start_idx = 0 /\ AllExited /\ ~done_event)
        ~> (main_pc = "returned" \/ interrupted)

\* C9: a failed batch does not end the run: when every consumer of an
\* uninterrupted run of map-insertmany.py has ended, and when
\* insert_bulk_data has returned, every batch has been sent to the store at
\* least once.
C9_LaterBatchesSubmitted ==
    /\ (script = "insertmany" /\ AllExited /\ ~done_event) =>
          BatchOffsets \subseteq submitted
    /\ (script = "bulk" /\ bulk_pc = "returned") =>
          \A b \in 1..NumBatches : t_pc[b] = "done" /\ b \in submitted

\* C9 witness: the only consumer has failed the batch at offset 0 after
\* using up its retries, has gone on to the batch at offset 1, and has ended.
C9_Witness ==
    /\ script = "insertmany" /\ max_workers = 1 /\ batch_size = 1
    /\ start_idx = 0 /\ total_items = 2
    /\ AllExited /\ ~done_event
    /\ 0 \in exhausted /\ warned[0] = 1
    /\ 1 \in submitted

(***************************************************************************)
(* The batches, the progress file and the stop flag.                       *)
(***************************************************************************)
\* the input offsets of batch number b of insert_bulk_data
BulkOffsets(b) ==
    {i \in 0..(count - 1) :
        \E d \in Draws : generate_random_map_element(i, d) \in batches[b]}

\* the producer has ended its loop without the stop flag
ProducerFinished == prod_pc \in {"sentinel", "done"} /\ ~done_event

\* C11: the batches are a partition of the input offsets in increasing
\* order.  In batch_producer the batches put so far cover [start_idx, idx)
\* without gap or overlap, each holds 1..batch_size records, and when the loop
\* has ended without the stop flag they cover [start_idx, total_items).  In
\* insert_bulk_data every offset of [0, count) is in exactly one batch, each
\* batch holds 1..batch_size records, and the offsets of a batch precede
\* those of the next.
C11_BatchesPartitionOffsets ==
    /\ script = "insertmany" =>
         /\ \A k \in 1..Len(produced) :
              /\ produced[k].size \in 1..batch_size
              /\ produced[k].idx =
                    IF k = 1 THEN start_idx
                    ELSE produced[k - 1].idx + produced[k - 1].size
         /\ prod_idx = IF produced = <<>> THEN start_idx
                       ELSE produced[Len(produced)].idx
                                + produced[Len(produced)].size
         /\ ProducerFinished /\ start_idx <= total_items => prod_idx = total_items
    /\ script = "bulk" =>
         /\ \A i \in 0..(count - 1) :
              Cardinality({b \in 1..NumBatches : i \in BulkOffsets(b)}) = 1
         /\ \A b \in 1..NumBatches :
              /\ Cardinality(batches[b]) \in 1..batch_size
              /\ Cardinality(BulkOffsets(b)) = Cardinality(batches[b])
              /\ \A c \in 1..NumBatches : b < c =>
                   \A i \in BulkOffsets(b), j \in BulkOffsets(c) : i < j

\* C11 witness: insert_bulk_data has split three items into a full batch of
\* two and a last batch of one, and has sent both.
C11_Witness ==
    /\ script = "bulk" /\ count = 3 /\ batch_size = 2
    /\ BulkOffsets(1) = {0, 1} /\ BulkOffsets(2) = {2}
    /\ t_pc[1] = "done" /\ t_pc[2] = "done"

\* C12: the last_index of the progress file is an offset up to which every
\* record has been accepted by the store: every offset of
\* [start_idx, last_index) is stored.
C12_CheckpointPrefixStored ==
    (script = "insertmany" /\ progress_file # -1) =>
        \A i \in start_idx..(progress_file - 1) : i \in stored

\* C13: when an uninterrupted run from offset 0 in which every batch
\* succeeded returns, the progress file holds last_index = total_items.
C13_CleanRunCheckpoint ==
    (/\ script = "insertmany" /\ main_pc = "returned" /\ ~interrupted
     /\ start_idx = 0 /\ resumed_from = -1
     /\ items_inserted = total_items) =>
        progress_file = total_items

\* C14: a run begins at the last_index of the progress file, or at 0 without
\* a file: the first batch starts there and no batch below it is produced or
\* sent to the store.
C14_ResumeFromCheckpoint ==
    script = "insertmany" =>
        /\ start_idx = IF resumed_from = -1 THEN 0 ELSE resumed_from
        /\ prod_idx >= start_idx
        /\ produced # <<>> => produced[1].idx = start_idx
        /\ \A k \in 1..Len(produced) : produced[k].idx >= start_idx
        /\ \A k \in 1..Len(batch_queue) :
             batch_queue[k] # NoneItem => batch_queue[k].idx >= start_idx
        /\ \A i \in submitted \cup stored : i >= start_idx

\* C14 witness: a run resumed at offset 1 has sent the batch at offset 1.
C14_Witness ==
    /\ script = "insertmany" /\ resumed_from = 1 /\ total_items = 2
    /\ produced # <<>> /\ produced[1].idx = 1
    /\ 1 \in submitted /\ 1 \in stored

\* C15: once done_event is set no consumer makes another call of the store,
\* neither a retry of the batch it is writing nor the first call for a batch
\* it takes from the queue.
C15_NoCallAfterStop ==
    [][done_event =>
          \A w \in Workers :
              (w_pc[w] = "write" /\ RetryGuard(w)) =>
                  (w_pc'[w] = w_pc[w] /\ retries'[w] = retries[w])]_vars

\* the sentinel is on the queue
SentinelQueued == \E k \in 1..Len(batch_queue) : batch_queue[k] = NoneItem

\* the consumers that have taken the sentinel and not yet put it back
Holding == {w \in 1..max_workers : w_pc[w] = "putback"}

\* C19: in an uninterrupted run the sentinel is put only after the last batch
\* and stays the last item of the queue; once put there is one sentinel, on
\* the queue or with the consumer that is about to put it back; a consumer
\* takes it only when no batch waits, and when it ends the sentinel is on the
\* queue again; and every consumer eventually ends.
C19_SentinelDrainsWorkers ==
    /\ [](script = "insertmany" /\ ~done_event =>
            /\ SentinelQueued \/ prod_pc = "done" =>
                 /\ prod_idx >= total_items
                 /\ Len(produced) = Cardinality(BatchOffsets)
            /\ \A k \in 1..Len(batch_queue) :
                 batch_queue[k] = NoneItem => k = Len(batch_queue)
            /\ prod_pc = "done" =>
                 Cardinality({k \in 1..Len(batch_queue) : batch_queue[k] = NoneItem})
                     + Cardinality(Holding) = 1
            /\ (\E w \in 1..max_workers : w_pc[w] \in {"putback", "exited"}) =>
                 \A k \in 1..Len(batch_queue) : batch_queue[k] = NoneItem)
    /\ [][(script = "insertmany" /\ ~done_event') =>
            \A w \in 1..max_workers :
                (w_pc[w] # "exited" /\ w_pc'[w] = "exited") =>
                    batch_queue' = <<NoneItem>>]_vars
    /\ (script = "insertmany") ~> (AllExited \/ interrupted)

\* C19 witness: two consumers have ended on the sentinel of an uninterrupted
\* run of two batches, and the sentinel is still on the queue.
C19_Witness ==
    /\ script = "insertmany" /\ ~interrupted /\ max_workers = 2
    /\ Len(produced) = 2 /\ prod_pc = "done"
    /\ AllExited /\ batch_queue = <<NoneItem>>
    /\ dequeued[0] = 1 /\ dequeued[1] = 1

(***************************************************************************)
(* generate_batch_data called twice (SpecGenerate).                        *)
(***************************************************************************)
\* C16: two calls of generate_batch_data with the same start_idx and
\* batch_size return the same records, with the same keys bte and tsver.
C16_GenerationDeterministic ==
    (script = "generate" /\ g_pc = "done") =>
        /\ first_batch = second_batch
        /\ \A k \in 1..g_batch_size :
             /\ first_batch[k].bte = second_batch[k].bte
             /\ first_batch[k].tsver = second_batch[k].tsver

(***************************************************************************)
(* query_max_versions_by_block (SpecQuery).                                *)
(***************************************************************************)
\* the records of sq before the first one whose version is below the
\* threshold
RECURSIVE AboveThresholdPrefix(_)
AboveThresholdPrefix(sq) ==
    IF sq = <<>> \/ CurrentVersion(Head(sq)) < max_version_threshold THEN <<>>
    ELSE <<Head(sq)>> \o AboveThresholdPrefix(Tail(sq))

\* the records of sq whose element id no earlier record of sq has
FirstPerElement(sq) ==
    SelectSeq([k \in 1..Len(sq) |-> [at |-> k, item |-> sq[k]]],
              LAMBDA r : \A j \in 1..(r.at - 1) : sq[j].ele # r.item.ele)

\* C17: the result holds no two records with the same element id and none
\* below the threshold, and the function returns the first record of every
\* element id among the records before the first one below the threshold.
C17_FirstSeenPerElement ==
    script = "query" =>
        /\ \A j, k \in 1..Len(result_items) :
             j # k => result_items[j].ele # result_items[k].ele
        /\ \A k \in 1..Len(result_items) :
             CurrentVersion(result_items[k]) >= max_version_threshold
        /\ q_pc = "done" =>
             LET want == FirstPerElement(AboveThresholdPrefix(stream))
             IN  result_items = [k \in 1..Len(want) |-> want[k].item]

\* C17 witness: the function has returned two records, one per element id,
\* from a stream of four records that repeats an element id before a record
\* below the threshold on a later page.
C17_Witness ==
    /\ script = "query" /\ q_pc = "done"
    /\ Len(stream) = 4 /\ page_requests >= 2 /\ should_break
    /\ stream[1].ele = stream[2].ele /\ stream[3].ele # stream[1].ele
    /\ CurrentVersion(stream[4]) < max_version_threshold
    /\ Len(result_items) = 2 /\ result_items[1] = stream[1]
    /\ result_items[2] = stream[3]

\* C20: once a record below the threshold has been encountered no further
\* page is requested.
C20_NoPageAfterBelow ==
    [][below_seen => page_requests' = page_requests]_vars

(***************************************************************************)
(* delete_all_items.py (SpecDelete).                                       *)
(***************************************************************************)
\* the confirmation is the word yes, in any mix of cases
YesIgnoringCase(cs) ==
    /\ Len(cs) = 3
    /\ cs[1] \in {"y", "Y"} /\ cs[2] \in {"e", "E"} /\ cs[3] \in {"s", "S"}

\* C18: no scan and no delete_item call is made unless the confirmation is
\* yes in some mix of cases; with any other confirmation the script is
\* cancelled and the table is as it was.
C18_DeleteNeedsYes ==
    script = "delete" =>
        /\ (scan_calls > 0 \/ delete_calls > 0) => YesIgnoringCase(confirmation)
        /\ ~YesIgnoringCase(confirmation) =>
             /\ table = table_before
             /\ d_pc \in {"input", "cancelled"}

\* C18 witness: after the confirmation YeS both items of the table have been
\* scanned and deleted.
C18_Witness ==
    /\ script = "delete" /\ confirmation = <<"Y", "e", "S">>
    /\ d_pc = "returned" /\ table_before = {1, 2} /\ table = {}
    /\ scan_calls = 2 /\ delete_calls = 2

(***************************************************************************)
(* map-insertmany.py: the checkpoint of an interrupted or resumed run      *)
(* (SpecInsertMany, FairResumed).                                          *)
(***************************************************************************)
\* C22: when an interrupted run of parallel_insert_large_dataset returns,
\* the progress file holds last_index = start_idx + items_inserted for the
\* value of items_inserted that the function returns.
C22_InterruptFlushesCheckpoint ==
    (script = "insertmany" /\ main_pc = "returned" /\ interrupted) =>
        progress_file = start_idx + items_inserted

\* C24: a run resumed from a checkpoint c with 0 < c < total_items in which
\* every remaining batch has succeeded (items_inserted = total_items - c and
\* every consumer has ended) eventually returns, unless an interrupt comes.
C24_ResumedRunReturns ==
    (/\ script = "insertmany" /\ 0 < start_idx /\ start_idx < total_items
     /\ AllExited /\ ~done_event /\ items_inserted = total_items - start_idx)
        ~> (main_pc = "returned" \/ interrupted)

\* C25: after every tick of the monitor the sum of items_since_last over the
\* ticks so far equals last_items_inserted.  Both are 0 before the first
\* tick, so this says that every tick that reports adds its items_since_last
\* to last_items_inserted.
C25_TicksSumToLast ==
    [][(script = "insertmany" /\ main_pc = "log" /\ main_pc' = "save") =>
          last_items_inserted' = last_items_inserted + items_since_last]_vars

\* C30: no delete_item call is made before the key schema has been read and
\* the paginated scan has ended with a page without LastEvaluatedKey; a
\* describe_table or scan that raises makes the function return with no
\* delete_item call made and the table as it was.
C30_NoDeleteBeforeFullScan ==
    /\ [](script = "delete" =>
            (delete_calls > 0 =>
                /\ d_pc \in {"delete", "returned"}
                /\ scan_calls > 0 /\ unscanned = {}))
    /\ [][(script = "delete" /\ d_pc \in {"describe", "scan"}
             /\ d_pc' = "returned") =>
                (delete_calls' = 0 /\ table' = table_before)]_vars

\* C30 witness: the second scan page raised after a first page with one of
\* the two items; the function has returned without a delete_item call.
C30_Witness ==
    /\ script = "delete" /\ d_pc = "returned"
    /\ table_before = {1, 2} /\ table = {1, 2}
    /\ scan_calls = 2 /\ Len(d_items) = 1 /\ unscanned # {}
    /\ delete_calls = 0

(***************************************************************************)
(* map-query-ele-ver.py (SpecVersions).                                    *)
(***************************************************************************)
\* the result has one entry for each element of the selected items and no
\* other, with the largest selected tsver of the element
LatestPerElement(result) ==
    /\ \A j, k \in 1..Len(result) : result[j].element = result[k].element => j = k
    /\ Elements(result) = {Selected[k].element : k \in 1..Len(Selected)}
    /\ \A j \in 1..Len(result) :
         /\ \E k \in 1..Len(Selected) :
              /\ Selected[k].element = result[j].element
              /\ Selected[k].tsver = result[j].max_tsver
         /\ \A k \in 1..Len(Selected) :
              Selected[k].element = result[j].element =>
                  Selected[k].tsver <= result[j].max_tsver

\* C21: on the same table both functions return one entry per element of the
\* items with tsver <= max_tsver, holding the largest such tsver of the
\* element, and the two results are equal, whatever the pages were.
C21_SameLatestVersions ==
    script = "versions" =>
        /\ v_pc \in {"optimized", "optimized_end", "done"} =>
             LatestPerElement(plain_result)
        /\ v_pc = "done" =>
             /\ LatestPerElement(optimized_result)
             /\ optimized_result = plain_result

\* C21 witness: four items of two elements, the newest above max_tsver; the
\* plain function took them in two pages, the optimized one in three, and
\* both return the second and the third item.
C21_Witness ==
    /\ script = "versions" /\ v_pc = "done"
    /\ Len(gsi) = 4 /\ gsi[1].tsver > max_tsver /\ Len(Selected) = 3
    /\ gsi[2].element = gsi[4].element /\ gsi[3].element # gsi[2].element
    /\ gsi[2].tsver > gsi[4].tsver
    /\ v_pages = <<2, 3>>
    /\ Len(optimized_result) = 2
    /\ optimized_result[1].max_tsver = gsi[2].tsver
    /\ optimized_result[2].max_tsver = gsi[3].tsver

(***************************************************************************)
(* ddb-bench-batchget.py and ddb-bench-query.py (SpecBench, FairBench,     *)
(* SpecLocks).                                                             *)
(***************************************************************************)
\* C29: once the stop event is set each worker begins at most one further
\* call and ends its loop: the benchmark eventually returns, and after it
\* has returned the counters do not change.
C29_StopsAfterOneMoreCall ==
    /\ [](script \in {"batchget", "benchquery"} =>
            \A w \in Workers : calls_after_stop[w] <= 1)
    /\ (script \in {"batchget", "benchquery"} /\ stop_event) ~> (b_pc = "returned")
    /\ [][b_pc = "returned" => counters' = counters]_vars

\* C29 witness: the benchmark has returned and the second worker began one
\* call after the stop event.
C29_Witness ==
    /\ script = "batchget" /\ b_pc = "returned" /\ num_threads = 2
    /\ calls_after_stop[2] = 1 /\ total_queries + total_errors > 0

\* C23: a worker holds the counter lock only for the counter update: never
\* while it is in a store call or a backoff sleep (stats_lock of
\* map-insertmany.py, lock of ddb-bench-batchget.py).
C23_LockOnlyForCount ==
    /\ script = "insertmany" =>
         \A w \in Workers :
             /\ stats_lock = w => w_pc[w] = "locked"
             /\ w_pc[w] = "write" => stats_lock # w
    /\ script = "batchget" =>
         \A w \in Workers :
             /\ lock = w => bw_pc[w] = "locked"
             /\ bw_pc[w] = "call" => lock # w

\* C23 witness: one worker of ddb-bench-batchget.py holds the lock for its
\* count while the other is inside its call.
C23_Witness ==
    /\ script = "batchget"
    /\ lock = 1 /\ bw_pc[1] = "locked" /\ bw_pc[2] = "call"

\* the keys of ddb-bench-batchget.py
Keys == DOMAIN k_dequeued

\* C28: in ddb-bench-batchget.py every key taken from the queue is sent in
\* one call of at least one and at most batch_size keys and is counted once,
\* in total_queries if the call returned and in total_errors if it raised;
\* when the benchmark has returned total_queries + total_errors is the
\* number of keys taken.
C28_KeysCountedOnce ==
    script = "batchget" =>
        /\ \A k \in Keys :
             /\ k_dequeued[k] <= 1 /\ k_requested[k] <= k_dequeued[k]
             /\ k_counted[k] <= k_requested[k]
        /\ \A w \in Workers :
             bw_pc[w] \in {"call", "count", "locked"} =>
                 (Len(batch[w]) >= 1 /\ Len(batch[w]) <= bench_batch_size)
        /\ total_queries =
               Cardinality({k \in Keys : k_counted[k] = 1 /\ k_outcome[k] = "ok"})
        /\ total_errors =
               Cardinality({k \in Keys : k_counted[k] = 1 /\ k_outcome[k] = "err"})
        /\ b_pc = "returned" =>
             /\ \A k \in Keys : k_requested[k] = k_dequeued[k]
                                  /\ k_counted[k] = k_dequeued[k]
             /\ total_queries + total_errors =
                    Cardinality({k \in Keys : k_dequeued[k] = 1})

\* C28 witness: three keys were taken by two workers in batches of at most
\* two; one call raised; the benchmark has returned with every key counted.
C28_Witness ==
    /\ script = "batchget" /\ b_pc = "returned" /\ num_threads = 2
    /\ bench_batch_size = 2 /\ Keys = 1..3
    /\ \A k \in Keys : k_dequeued[k] = 1 /\ k_counted[k] = 1
    /\ total_queries = 2 /\ total_errors = 1 /\ b_calls = 2

(***************************************************************************)
(* query_benchmark.py (SpecQueryBench).                                    *)
(***************************************************************************)
\* C26: the totals printed after run_benchmark are the keys requested in
\* successful calls, the items those calls returned and the keys in failed
\* calls, over all workers.
C26_TotalsIncludeEveryWorker ==
    (script = "querybench" /\ qb_pc = "printed") =>
        printed = <<ok_keys, ok_items, err_keys>>

\* the chunks one after the other
RECURSIVE Concat(_)
Concat(chunks) ==
    IF chunks = <<>> THEN <<>> ELSE Head(chunks) \o Concat(Tail(chunks))

\* C27: split_items returns at most num_threads chunks, none empty, whose
\* concatenation is items, for every non-empty items and every
\* num_threads >= 1, so that every chunk has a thread of the pool.
C27_SplitPartitions ==
    (script = "querybench" /\ qb_pc # "split") =>
        /\ qb_pc # "raised"
        /\ Len(item_chunks) <= qb_num_threads
        /\ \A j \in 1..Len(item_chunks) : item_chunks[j] # <<>>
        /\ Concat(item_chunks) = qb_items

=============================================================================
